---- MODULE Spec2Model ----
(***************************************************************************)
(* Model of the two crawl scripts of agri_forecast:                        *)
(*   crawler/src/crawl/pref_site_introspect.py  (priority crawl, pooled)   *)
(*   crawler/src/crawl/pref_site_mapper.py      (FIFO crawl, sequential)   *)
(*                                                                         *)
(* URLs are TLC strings.  Japanese text (anchor texts, titles, bodies) is  *)
(* a tuple of one-character tokens, each kanji/kana written by a romanised *)
(* name, e.g. <<"yo","satsu">> for the two characters of the first topic   *)
(* keyword.  The string helpers below work on strings and tuples alike.    *)
(***************************************************************************)
EXTENDS Integers, Sequences, FiniteSets, TLC

-----------------------------------------------------------------------------
(* Generic helpers (Python built-ins used by the code)                     *)

\* Python None where a string is expected, and where a number is expected
None == "None"
NoneInt == 0

StartsWith(s, p) == Len(s) >= Len(p) /\ SubSeq(s, 1, Len(p)) = p

EndsWith(s, p) == Len(s) >= Len(p) /\ SubSeq(s, Len(s) - Len(p) + 1, Len(s)) = p

\* str.find from position i (1-based); 0 when absent
RECURSIVE Find(_, _, _)
Find(s, p, i) ==
    IF i + Len(p) - 1 > Len(s) THEN 0
    ELSE IF SubSeq(s, i, i + Len(p) - 1) = p THEN i
    ELSE Find(s, p, i + 1)

\* the Python test  p in s
Contains(s, p) == Find(s, p, 1) # 0

\* str.rfind: last position of p in s, 0 when absent
RECURSIVE RFind(_, _, _)
RFind(s, p, i) ==
    IF i < 1 THEN 0
    ELSE IF SubSeq(s, i, i + Len(p) - 1) = p THEN i
    ELSE RFind(s, p, i - 1)

UPPER == "ABCDEFGHIJKLMNOPQRSTUVWXYZ"
LOWERCASE == "abcdefghijklmnopqrstuvwxyz"

\* str.lower on an ASCII string
RECURSIVE Lower(_)
Lower(s) ==
    IF Len(s) = 0 THEN ""
    ELSE LET c == SubSeq(s, 1, 1)
             k == Find(UPPER, c, 1)
         IN (IF k = 0 THEN c ELSE SubSeq(LOWERCASE, k, k)) \o Lower(SubSeq(s, 2, Len(s)))

\* code-point order of the characters that occur in the model's URLs
CODEPOINTS == "#%&+-./0123456789:=?@ABCDEFGHIJKLMNOPQRSTUVWXYZ[]_abcdefghijklmnopqrstuvwxyz~"

\* Python  a < b  on strings from position i on, the characters before i being
\* equal (lexicographic by code point; a proper prefix is smaller)
RECURSIVE StrLessFrom(_, _, _)
StrLessFrom(a, b, i) ==
    IF i > Len(b) THEN FALSE
    ELSE IF i > Len(a) THEN TRUE
    ELSE IF SubSeq(a, i, i) = SubSeq(b, i, i) THEN StrLessFrom(a, b, i + 1)
    ELSE Find(CODEPOINTS, SubSeq(a, i, i), 1) < Find(CODEPOINTS, SubSeq(b, i, i), 1)

StrLess(a, b) == StrLessFrom(a, b, 1)

\* smallest position >= i of s holding one of the characters of the string cs; Len(s)+1 when none
RECURSIVE FindAny(_, _, _)
FindAny(s, cs, i) ==
    IF i > Len(s) THEN Len(s) + 1
    ELSE IF Contains(cs, SubSeq(s, i, i)) THEN i
    ELSE FindAny(s, cs, i + 1)

Max(a, b) == IF a >= b THEN a ELSE b
Min(a, b) == IF a <= b THEN a ELSE b

\* the set of the elements of a sequence
Range(f) == {f[i] : i \in DOMAIN f}

-----------------------------------------------------------------------------
(* urllib.parse as used by the code                                        *)

\* urlparse(u).scheme : the characters before the first ":" ("" when there is none)
Scheme(u) ==
    LET k == Find(u, ":", 1)
    IN IF k = 0 \/ FindAny(u, "/?#", 1) < k THEN "" ELSE Lower(SubSeq(u, 1, k - 1))

\* urlparse(u).netloc : what follows "scheme://" up to the next "/", "?" or "#"
Netloc(u) ==
    LET k == Find(u, "://", 1)
    IN IF k = 0 \/ Scheme(u) = "" \/ Len(Scheme(u)) # k - 1 THEN ""
       ELSE SubSeq(u, k + 3, FindAny(u, "/?#", k + 3) - 1)

\* urlparse(u).netloc.split(":")[0]
HostOf(u) ==
    LET n == Netloc(u)
    IN SubSeq(n, 1, FindAny(n, ":", 1) - 1)

\* urlsplit raises ValueError("Invalid IPv6 URL") on a netloc with one bracket only
UrlRaises(u) ==
    LET n == Netloc(u)
    IN Contains(n, "[") # Contains(n, "]")

\* urljoin raises when either URL has a malformed network location
urljoin_raises(base, href) == UrlRaises(base) \/ UrlRaises(href)

\* urljoin(base, href) for the href shapes of the model: empty, absolute
\* (own scheme), root-relative ("/p") and document-relative ("p")
urljoin(base, href) ==
    IF href = "" THEN base
    ELSE IF Scheme(href) # "" THEN href
    ELSE IF StartsWith(href, "/")
         THEN Scheme(base) \o "://" \o Netloc(base) \o href
    ELSE LET p0 == Find(base, "://", 1) + 3
             ls == RFind(base, "/", Len(base))
         IN IF ls < p0 THEN base \o "/" \o href
            ELSE SubSeq(base, 1, ls) \o href

-----------------------------------------------------------------------------
(* Module constants of pref_site_introspect.py                             *)

\* KEYWORDS, one tuple of characters per keyword:
\*   yosatsu, hassei-yosatsu, hassei-jouhou, chuuihou, keihou, bakkunanbaa,
\*   nendo, byougaichuu, gaichuu, byougai
KEYWORDS ==
    << <<"yo", "satsu">>,
       <<"hatsu", "sei", "yo", "satsu">>,
       <<"hatsu", "sei", "jou", "hou">>,
       <<"chuu", "i", "hou">>,
       <<"kei", "hou">>,
       <<"ba", "xtu", "ku", "na", "n", "-">>,
       <<"nen", "do">>,
       <<"byou", "gai", "mushi">>,
       <<"gai", "mushi">>,
       <<"byou", "gai">> >>

BACKNUMBER == <<"ba", "xtu", "ku", "na", "n", "-">>

URL_HINTS ==
    << "yosatsu", "yosatu", "yohou", "byogaichu", "gaicyu", "gaichu", "byogai", "yosan" >>

DIGITS == "0123456789"

IsDigit(c) == Len(c) = 1 /\ Contains(DIGITS, c)

\* re.search(r"20\d{2}", s) on a string
RECURSIVE Has20xx(_, _)
Has20xx(s, i) ==
    IF i + 3 > Len(s) THEN FALSE
    ELSE IF /\ SubSeq(s, i, i + 1) = "20"
            /\ IsDigit(SubSeq(s, i + 2, i + 2))
            /\ IsDigit(SubSeq(s, i + 3, i + 3)) THEN TRUE
    ELSE Has20xx(s, i + 1)

\* sum of w over the entries of list that occur in s (one addition per list entry)
RECURSIVE ScoreList(_, _, _, _)
ScoreList(list, s, w, i) ==
    IF i > Len(list) THEN 0
    ELSE (IF Contains(s, list[i]) THEN w ELSE 0) + ScoreList(list, s, w, i + 1)

\* (variant without the point for a 20xx in the URL)
priority_score_NoYear(text, url) ==
    ScoreList(KEYWORDS, text, 3, 1)
    + ScoreList(URL_HINTS, Lower(url), 2, 1)
    + (IF Contains(Lower(url), "back") \/ Contains(text, BACKNUMBER) THEN 2 ELSE 0)

priority_score(text, url) ==
    ScoreList(KEYWORDS, text, 3, 1)
    + ScoreList(URL_HINTS, Lower(url), 2, 1)
    + (IF Has20xx(url, 1) THEN 1 ELSE 0)
    + (IF Contains(Lower(url), "back") \/ Contains(text, BACKNUMBER) THEN 2 ELSE 0)

\* is_same_domain of both scripts (the same code up to names)
\* (variant without the equal-host branch)
is_same_domain_SuffixOnly(base, link) ==
    IF UrlRaises(base) \/ UrlRaises(link) THEN FALSE
    ELSE LET b == HostOf(base)
             l == HostOf(link)
         IN EndsWith(b, ".go.jp") /\ EndsWith(l, ".go.jp")

is_same_domain(base, link) ==
    IF UrlRaises(base) \/ UrlRaises(link) THEN FALSE
    ELSE LET b == HostOf(base)
             l == HostOf(link)
         IN (b = l) \/ (EndsWith(b, ".go.jp") /\ EndsWith(l, ".go.jp"))

\* classify_ext of pref_site_introspect.py; ct is the lower-cased Content-Type ("" when absent)
classify_ext(url, ct) ==
    LET u == Lower(url)
    IN IF (ct # "" /\ Contains(ct, "pdf")) \/ EndsWith(u, ".pdf") THEN "pdf"
       ELSE IF (ct # "" /\ Contains(ct, "xml")) \/ EndsWith(u, ".xml") THEN "xml"
       ELSE IF EndsWith(u, ".csv") THEN "csv"
       ELSE IF EndsWith(u, ".json") THEN "json"
       ELSE IF EndsWith(u, ".xlsx") \/ EndsWith(u, ".xls") \/ EndsWith(u, ".xlsm") THEN "xls"
       ELSE IF \/ (ct # "" /\ (Contains(ct, "html") \/ Contains(ct, "xhtml")))
               \/ EndsWith(u, ".html") \/ EndsWith(u, ".htm") \/ EndsWith(u, "/") THEN "html"
       ELSE "other"

\* classify of pref_site_mapper.py (html is tested before xml here)
classify(ct, url) ==
    LET u == Lower(url)
    IN IF (ct # "" /\ Contains(ct, "pdf")) \/ EndsWith(u, ".pdf") THEN "pdf"
       ELSE IF \/ (ct # "" /\ (Contains(ct, "html") \/ Contains(ct, "xhtml")))
               \/ EndsWith(u, ".html") \/ EndsWith(u, ".htm") \/ EndsWith(u, "/") THEN "html"
       ELSE IF (ct # "" /\ Contains(ct, "xml")) \/ EndsWith(u, ".xml") THEN "xml"
       ELSE IF EndsWith(u, ".csv") THEN "csv"
       ELSE IF EndsWith(u, ".xlsx") \/ EndsWith(u, ".xls") \/ EndsWith(u, ".xlsm") THEN "xls"
       ELSE IF EndsWith(u, ".json") THEN "json"
       ELSE "other"

-----------------------------------------------------------------------------
(* robots.txt: RobotsCache.allowed builds a urllib.robotparser             *)
(* RobotFileParser, calls read() inside try/except-pass and asks           *)
(* can_fetch.  A server's robots.txt is [kind, disallow]: kind "ok" (200,  *)
(* rules parsed; disallow is the set of path prefixes closed to the        *)
(* crawler's agent), "http403" (401/403), "http404" (another 4xx),         *)
(* "http500" (5xx) or "neterr" (urlopen raises: DNS, refused, timeout).    *)

\* a fresh RobotFileParser()
NewParser == [disallow_all |-> FALSE, allow_all |-> FALSE, last_checked |-> FALSE, disallow |-> {}]

\* rp.read() followed by the caller's except-pass: read sets disallow_all on
\* 401/403, allow_all on the other 4xx, parses on success, and leaves the
\* parser untouched on 5xx and when urlopen raises
rp_read(robots) ==
    CASE robots.kind = "ok"      -> [NewParser EXCEPT !.last_checked = TRUE, !.disallow = robots.disallow]
      [] robots.kind = "http403" -> [NewParser EXCEPT !.disallow_all = TRUE]
      [] robots.kind = "http404" -> [NewParser EXCEPT !.allow_all = TRUE]
      [] OTHER                   -> NewParser

\* the path part of a URL as can_fetch sees it ("/" when empty)
PathOf(url) ==
    LET k == Find(url, "://", 1)
        p == FindAny(url, "/?#", k + 3)
    IN IF k = 0 \/ p > Len(url) THEN "/" ELSE SubSeq(url, p, Len(url))

\* rp.can_fetch(UA, url)
can_fetch(rp, url) ==
    IF rp.disallow_all THEN FALSE
    ELSE IF rp.allow_all THEN TRUE
    ELSE IF ~rp.last_checked THEN FALSE
    ELSE ~\E d \in rp.disallow : StartsWith(PathOf(url), d)

\* the cache key of RobotsCache.allowed / Robots.allowed: scheme://netloc
RobotsKey(url) == Scheme(url) \o "://" \o Netloc(url)

-----------------------------------------------------------------------------
(* Year heuristic.  A text is a tuple of characters; "fwsp" is the         *)
(* full-width space, "rei","wa" and "hei","naru" the two era names,        *)
(* "nen" and "do" the year / fiscal-year suffix characters.                *)

REIWA == <<"rei", "wa">>
HEISEI == <<"hei", "naru">>

\* FUTURE_GUARD_WORDS: keikaku, yotei, an, boshuu, yosan, houshin, koubo
FUTURE_GUARD_WORDS ==
    << <<"hakaru", "kaku">>, <<"yo", "tei">>, <<"an">>, <<"bo", "shuu">>,
       <<"yo", "san">>, <<"kata", "shin">>, <<"kou", "bo">> >>

\* time.localtime().tm_year
current_year == 2026

\* text.replace(full-width space, " ")
NormalizeSpaces(t) == [i \in 1..Len(t) |-> IF t[i] = "fwsp" THEN " " ELSE t[i]]

\* the characters of a string as a text
Chars(s) == [i \in 1..Len(s) |-> SubSeq(s, i, i)]

At(t, i) == IF i >= 1 /\ i <= Len(t) THEN t[i] ELSE ""

\* first position >= i of t that holds no digit (end of a \d+ run)
RECURSIVE DigitsEnd(_, _)
DigitsEnd(t, i) == IF IsDigit(At(t, i)) THEN DigitsEnd(t, i + 1) ELSE i

\* int() of the digits t[i..j-1]
RECURSIVE IntOf(_, _, _)
IntOf(t, i, j) ==
    IF j <= i THEN 0
    ELSE 10 * IntOf(t, i, j - 1) + (Find(DIGITS, t[j - 1], 1) - 1)

\* end (exclusive) of the optional suffix  (?:nen do?)?  starting at j
SuffixEnd(t, j) ==
    IF At(t, j) = "nen" THEN (IF At(t, j + 1) = "do" THEN j + 2 ELSE j + 1) ELSE j

\* One alternative of YEAR_PAT tried at position i: [end |-> exclusive end of
\* the match (0: no match), year |-> the candidate year].  withSuffix is TRUE
\* for the pattern of pref_site_introspect.py (era number must be followed by
\* "nen", "do" optional; 20xx may be followed by them) and FALSE for the
\* pattern of pref_site_mapper.py (no suffix in the pattern).
EraAt(t, i, era, offset, withSuffix) ==
    LET j0 == i + 2
        j1 == IF At(t, j0) = " " THEN j0 + 1 ELSE j0
        j2 == DigitsEnd(t, j1)
    IN IF SubSeq(t, i, Min(Len(t), i + 1)) # era \/ j2 = j1 THEN [end |-> 0, year |-> 0]
       ELSE IF ~withSuffix THEN [end |-> j2, year |-> offset + IntOf(t, j1, j2)]
       ELSE IF At(t, j2) # "nen" THEN [end |-> 0, year |-> 0]
       ELSE [end |-> SuffixEnd(t, j2), year |-> offset + IntOf(t, j1, j2)]

WesternAt(t, i, withSuffix) ==
    IF At(t, i) = "2" /\ At(t, i + 1) = "0" /\ IsDigit(At(t, i + 2)) /\ IsDigit(At(t, i + 3))
    THEN [end |-> IF withSuffix THEN SuffixEnd(t, i + 4) ELSE i + 4, year |-> IntOf(t, i, i + 4)]
    ELSE [end |-> 0, year |-> 0]

\* the match of YEAR_PAT at position i (alternatives in pattern order)
\* (variant adding the offset of the first era to both eras)
MatchAt_SameOffset(t, i, withSuffix) ==
    LET r == EraAt(t, i, REIWA, 2018, withSuffix)
        h == EraAt(t, i, HEISEI, 2018, withSuffix)
    IN IF r.end # 0 THEN r ELSE IF h.end # 0 THEN h ELSE WesternAt(t, i, withSuffix)

MatchAt(t, i, withSuffix) ==
    LET r == EraAt(t, i, REIWA, 2018, withSuffix)
        h == EraAt(t, i, HEISEI, 1988, withSuffix)
    IN IF r.end # 0 THEN r ELSE IF h.end # 0 THEN h ELSE WesternAt(t, i, withSuffix)

\* the loop body of extract_year_candidates for the match m found at i
\* (variant without the guard-word test)
KeepCandidate_NoGuard(t, i, m) ==
    /\ m.year # 0
    /\ ~(m.year > current_year)
    /\ 1990 <= m.year /\ m.year <= current_year

KeepCandidate(t, i, m) ==
    LET near == SubSeq(t, Max(1, i - 20), Min(Len(t), m.end - 1 + 20))
    IN /\ m.year # 0
       /\ ~(m.year > current_year)
       /\ ~\E g \in DOMAIN FUTURE_GUARD_WORDS : Contains(near, FUTURE_GUARD_WORDS[g])
       /\ 1990 <= m.year /\ m.year <= current_year

RECURSIVE YearScan(_, _)
YearScan(t, i) ==
    IF i > Len(t) THEN <<>>
    ELSE LET m == MatchAt(t, i, TRUE)
         IN IF m.end = 0 THEN YearScan(t, i + 1)
            ELSE (IF KeepCandidate(t, i, m) THEN <<m.year>> ELSE <<>>) \o YearScan(t, m.end)

\* extract_year_candidates of pref_site_introspect.py
extract_year_candidates(text) == YearScan(NormalizeSpaces(text), 1)

RECURSIVE MapperYearScan(_, _)
MapperYearScan(t, i) ==
    IF i > Len(t) THEN {}
    ELSE LET m == MatchAt(t, i, FALSE)
         IN IF m.end = 0 THEN MapperYearScan(t, i + 1)
            ELSE (IF m.year # 0 /\ ~(m.year > current_year) THEN {m.year} ELSE {})
                 \cup MapperYearScan(t, m.end)

\* sorted(set, reverse=True)
RECURSIVE SortedDesc(_)
SortedDesc(S) ==
    IF S = {} THEN <<>>
    ELSE LET m == CHOOSE x \in S : \A y \in S : y <= x
         IN <<m>> \o SortedDesc(S \ {m})

\* extract_years_from_text of pref_site_mapper.py (unique, descending)
extract_years_from_text(s) ==
    IF Len(s) = 0 THEN <<>> ELSE SortedDesc(MapperYearScan(NormalizeSpaces(s), 1))

-----------------------------------------------------------------------------
(* The sites the crawl is run against                                      *)

MaxPagesBound == 3
MaxDepthBound == 2
MaxLinks == 2
MaxSeeds == 2
MaxWorkers == 2

UA == "http://x.example/a"
UB == "http://x.example/b"
UC == "http://x.example/c"
UD == "http://x.example/d.pdf"
UY == "http://y.example/b"
UG == "http://www.pref.go.jp/"
UH == "http://sub.pref.go.jp/yosatsu/2024.html"
KX == "http://x.example"
KG == "http://www.pref.go.jp"
KH == "http://sub.pref.go.jp"

\* anchor texts: hassei-yosatsu-jouhou, bakkunanbaa, o-shi-ra-se
TKW == <<"hatsu", "sei", "yo", "satsu", "jou", "hou">>
TNEWS == <<"o", "shi", "ra", "se">>

Link(href, text) == [href |-> href, text |-> text]

\* a body: what the extractors will find in the content (title, text, the
\* three date locations, the anchors), whether the extractor raises on it,
\* and its size in bytes
EmptyBody == [title |-> <<>>, text |-> <<>>, meta |-> <<0, 0, 0>>, links |-> <<>>,
              raises |-> FALSE, size |-> 0]

NotFound == [status |-> 404, ct |-> "text/html", err |-> None, body |-> [EmptyBody EXCEPT !.size = 1]]

LB  == Link("/b", TKW)
LC  == Link("/c", <<>>)
LB0 == Link("/b", TNEWS)
LA  == Link("/a", <<>>)
LY  == Link(UY, TKW)
LM  == Link("mailto:info@x.example", TKW)
LBAD == Link("http://[x.example/", <<>>)
LD  == Link("d.pdf", BACKNUMBER)

XLinks == {LB, LC, LB0, LA, LY, LM, LBAD, LD}

LGH == Link(UH, TKW)
LGA == Link(UA, TKW)
LGB == Link("/back/2023/", <<>>)

GLinks == {LGH, LGA, LGB}

\* all anchor lists of at most MaxLinks anchors over an alphabet
LinkSeqs(alphabet) == UNION {[1..n -> alphabet] : n \in 0..MaxLinks}

\* responses
Html(links) ==
    [status |-> 200, ct |-> "text/html; charset=utf-8", err |-> None,
     body |-> [title |-> <<"rei", "wa", "5", "nen", "do">>, text |-> <<"2", "0", "2", "4", "nen">>,
               meta |-> <<0, 0, 0>>, links |-> links, raises |-> FALSE, size |-> 1000]]

HtmlBroken == [Html(<<LC>>) EXCEPT !.body.raises = TRUE]

HtmlDated == [Html(<<LC>>) EXCEPT !.body.meta = <<0, -1, 2021>>]

\* a page whose article:published_time is a date of 1985
HtmlOld == [Html(<<LC>>) EXCEPT !.body.meta = <<1985, 0, 0>>]

Failed(msg) == [status |-> NoneInt, ct |-> None, err |-> msg, body |-> EmptyBody]

ServerError == [NotFound EXCEPT !.status = 500]

PdfDoc ==
    [status |-> 200, ct |-> "application/pdf", err |-> None,
     body |-> [title |-> <<>>, text |-> [i \in 1..60 |-> IF i = 1 THEN "2" ELSE "0"],
               meta |-> <<0, 0, 0>>, links |-> <<>>, raises |-> FALSE, size |-> 1000]]

XmlFeed ==
    [status |-> 200, ct |-> "application/xml", err |-> None,
     body |-> [title |-> <<"hei", "naru", "3", "0", "nen">>, text |-> <<>>,
               meta |-> <<0, 0, 0>>, links |-> <<LC>>, raises |-> FALSE, size |-> 1000]]

Untyped == [Html(<<LC>>) EXCEPT !.ct = ""]

OkRobots(dis) == [kind |-> "ok", disallow |-> dis]

RobotsChoices ==
    {OkRobots({}), OkRobots({"/c"}), [kind |-> "http403", disallow |-> {}],
     [kind |-> "http404", disallow |-> {}], [kind |-> "http500", disallow |-> {}],
     [kind |-> "neterr", disallow |-> {}]}

\* what a page other than the seed page may answer
Answers ==
    {Html(<<>>), Html(<<LC>>), Html(<<LA, LC>>), Html(<<LBAD>>), HtmlBroken, HtmlDated, HtmlOld,
     Failed("timeout"), NotFound, ServerError, PdfDoc, XmlFeed, Untyped}

XWeb(ra, rb, rc, rob) ==
    [pages |-> (UA :> ra) @@ (UB :> rb) @@ (UC :> rc) @@ (UD :> PdfDoc),
     robots |-> (KX :> rob)]

\* sites on x.example: every anchor list on the seed page; every answer of the
\* pages behind it; every answer of the seed page; every robots.txt
XWebs ==
    {XWeb(Html(l), rb, Html(<<LB0>>), OkRobots({})) :
        l \in LinkSeqs(XLinks), rb \in {Html(<<LC>>)}}
    \cup {XWeb(Html(<<LB, LC>>), rb, rc, OkRobots({})) : rb \in Answers, rc \in {Html(<<>>), NotFound}}
    \cup {XWeb(ra, Html(<<LC>>), Html(<<>>), OkRobots({})) : ra \in Answers}
    \cup {XWeb(Html(<<LB, LC>>), Html(<<LC>>), Html(<<>>), rob) : rob \in RobotsChoices}

\* sites under the shared suffix .go.jp: anchors to another subdomain, to a
\* foreign domain and into the own site
GWebs ==
    {[pages |-> (UG :> Html(l)) @@ (UH :> rh),
      robots |-> (KG :> OkRobots({})) @@ (KH :> OkRobots({}))] :
        l \in LinkSeqs(GLinks), rh \in {Html(<<>>), PdfDoc}}

SeedX == [pref |-> "x", url |-> UA]
SeedG == [pref |-> "g", url |-> UG]
SeedB == [pref |-> "b", url |-> UB]
SeedB2 == [pref |-> "b", url |-> UG]

\* seed lists (no line twice; two lines carry the same label) and sites of
\* the pooled runs
PoolSeeds ==
    UNION {{f \in [1..n -> {SeedX, SeedB, SeedB2}] : \A i, j \in 1..n : i # j => f[i] # f[j]} :
           n \in 2..MaxSeeds}

PoolWebs ==
    {[pages |-> (UA :> Html(<<LC>>)) @@ (UB :> rb) @@ (UC :> Html(<<>>)) @@ (UG :> Html(<<LGH>>))
                @@ (UH :> PdfDoc),
      robots |-> (KX :> rob) @@ (KG :> OkRobots({})) @@ (KH :> OkRobots({}))] :
        rb \in {Html(<<LBAD>>), Html(<<LC>>)}, rob \in {OkRobots({}), [kind |-> "neterr", disallow |-> {}]}}

-----------------------------------------------------------------------------
(* The pure functions above, tabulated once over the URLs, anchor texts,   *)
(* content types and parsers that occur in the sites.                      *)

XPages == {UA, UB, UC, UD}
GPages == {UG, UH}

\* (page, href) pairs of the sites
SiteLinks == {<<b, l.href>> : b \in XPages, l \in XLinks} \cup {<<b, l.href>> : b \in GPages, l \in GLinks}

Urls == XPages \cup GPages \cup {urljoin(p[1], p[2]) : p \in {r \in SiteLinks : ~urljoin_raises(r[1], r[2])}}

Texts == {l.text : l \in XLinks \cup GLinks}

ContentTypes == {"", "text/html", "text/html; charset=utf-8", "application/pdf", "application/xml"}

Parsers == {rp_read(r) : r \in RobotsChoices}

T_urljoin == [p \in SiteLinks |-> IF urljoin_raises(p[1], p[2]) THEN "" ELSE urljoin(p[1], p[2])]

T_urljoin_raises == [p \in SiteLinks |-> urljoin_raises(p[1], p[2])]

T_RobotsKey == [u \in Urls |-> RobotsKey(u)]

T_can_fetch == [rp \in Parsers, u \in Urls |-> can_fetch(rp, u)]

T_classify_ext == [u \in Urls, ct \in ContentTypes |-> classify_ext(u, ct)]

T_classify == [ct \in ContentTypes, u \in Urls |-> classify(ct, u)]

T_is_same_domain == [b \in {UA, UB, UG}, u \in Urls |-> is_same_domain(b, u)]

T_priority_score == [t \in Texts, u \in Urls |-> priority_score(t, u)]

T_StrLess == [a \in Urls \cup {"root", ""}, b \in Urls \cup {"root", ""} |-> StrLess(a, b)]

T_Lower == [u \in Urls |-> Lower(u)]

T_HostOf == [u \in Urls |-> HostOf(u)]

-----------------------------------------------------------------------------
(* State                                                                   *)

VARIABLES
    prog,         \* which script runs: "introspect" or "map"
    seeds,        \* the rows of the seed CSV: sequence of [pref, url]
    max_pages,    \* --max-pages
    max_depth,    \* --max-depth
    workers,      \* --workers (pool width of pref_site_introspect.py)
    web,          \* the sites: [pages : url -> response, robots : key -> robots.txt]
    ROBOTS,       \* the module-level robots cache: key -> parser
    pc,           \* per seed: position of its crawl task
    key,          \* per seed: the cache key computed by the running allowed() call
    visited,      \* per seed: visited set
    q,            \* per seed: frontier, entries in insertion order
    cur,          \* per seed: the entry dequeued by the current iteration
    rows,         \* per seed: rows_detail / pages
    years_all,    \* per seed: years_all (introspect)
    pdf_rows,     \* per seed: pdf_rows (map)
    result,       \* per seed: what the task returned (summary) once it is done
    events,       \* per seed: history of dequeues, sleeps, robots reads and GETs
    collected,    \* main of introspect: futures already taken from as_completed, in order
    summaries,    \* main of introspect: the summaries list
    main_pc,      \* main: "run", "end" (finished) or "aborted" (uncaught exception)
    call,         \* a direct call of one of the pure functions: its name and arguments
    ret           \* [done, val]: whether that call has returned, and what

vars == << prog, seeds, max_pages, max_depth, workers, web, ROBOTS, pc, key, visited, q,
           cur, rows, years_all, pdf_rows, result, events, collected, summaries, main_pc,
           call, ret >>

\* what no step of a crawl changes: the command line, the sites, and the
\* direct call (there is none during a crawl)
cfgvars == << prog, seeds, max_pages, max_depth, workers, web, call, ret >>

crawlvars == << prog, seeds, max_pages, max_depth, workers, web, ROBOTS, pc, key, visited, q,
                cur, rows, years_all, pdf_rows, result, events, collected, summaries, main_pc >>

NoCall == [fn |-> "none"]
NoRet == [done |-> FALSE, val |-> 0]

Tasks == DOMAIN seeds

NoEntry == [prio |-> 0, depth |-> 0, url |-> "", src |-> ""]

\* the response served for a URL (an unknown page is a 404)
PageOf(u) == IF u \in DOMAIN web.pages THEN web.pages[u] ELSE NotFound

\* the robots.txt served for a cache key (an unknown host cannot be reached)
RobotsOf(k) == IF k \in DOMAIN web.robots THEN web.robots[k] ELSE [kind |-> "neterr", disallow |-> {}]

-----------------------------------------------------------------------------
(* The frontier of pref_site_introspect.py: queue.PriorityQueue of tuples  *)
(* (-priority, depth, url, src); get() returns the smallest tuple.         *)

\* Python tuple comparison  e < f
\* (variant comparing the priority and the depth only)
EntryLess_NoUrl(e, f) ==
    IF e.prio # f.prio THEN e.prio < f.prio ELSE e.depth < f.depth

EntryLess(e, f) ==
    IF e.prio # f.prio THEN e.prio < f.prio
    ELSE IF e.depth # f.depth THEN e.depth < f.depth
    ELSE IF e.url # f.url THEN T_StrLess[e.url, f.url]
    ELSE T_StrLess[e.src, f.src]

\* index of the entry q.get() returns (equal tuples are interchangeable)
\* (variant handing out the oldest entry)
MinIndex_Fifo(qq) == 1

MinIndex(qq) ==
    CHOOSE i \in DOMAIN qq :
        /\ \A j \in DOMAIN qq : ~EntryLess(qq[j], qq[i])
        /\ \A j \in 1..(i - 1) : qq[j] # qq[i]

RemoveAt(qq, i) == SubSeq(qq, 1, i - 1) \o SubSeq(qq, i + 1, Len(qq))

\* index of the entry the frontier hands out: PriorityQueue.get for
\* introspect, Queue.get (first in, first out) for map
\* (variant handing out the newest entry)
GetIndex_Lifo(qq) == Len(qq)

GetIndex(qq) == IF prog = "introspect" THEN MinIndex(qq) ELSE 1

-----------------------------------------------------------------------------
(* fetch and the extractors                                                *)

\* fetch(url) of both scripts: the robots gate, then one requests.get whose
\* exception becomes the error string
\* (variant that does not consult the robots gate)
fetch_NoGate(cache, url) ==
    LET p == PageOf(url)
    IN IF p.err # None
       THEN [status |-> NoneInt, ct |-> None, body |-> EmptyBody, err |-> p.err]
       ELSE [status |-> p.status, ct |-> p.ct, body |-> p.body, err |-> None]

fetch(cache, url) ==
    IF ~T_can_fetch[cache[T_RobotsKey[url]], url]
    THEN [status |-> NoneInt, ct |-> None, body |-> EmptyBody, err |-> "robots_disallow"]
    ELSE LET p == PageOf(url)
         IN IF p.err # None
            THEN [status |-> NoneInt, ct |-> None, body |-> EmptyBody, err |-> p.err]
            ELSE [status |-> p.status, ct |-> p.ct, body |-> p.body, err |-> None]

\* an HTTP request for the page is issued exactly when the gate lets it through
RequestIssued(cache, url) == T_can_fetch[cache[T_RobotsKey[url]], url]

\* the test  status != 200 or err  of introspect_pref
\* (variant that ignores the status code)
IsFetchError_ErrOnly(r) == r.err # None

IsFetchError(r) == r.status # 200 \/ r.err # None

Take(t, n) == SubSeq(t, 1, Min(Len(t), n))

SIZE_LIMIT == 2000000

\* the date locations of parse_html, in order; an entry is 0 (tag or attribute
\* absent), -1 (dateparser raises) or the year of the parsed date
RECURSIVE MetaTime(_, _)
MetaTime(meta, i) ==
    IF i > Len(meta) THEN 0
    ELSE IF meta[i] > 0 THEN meta[i]
    ELSE MetaTime(meta, i + 1)

DefaultMeta(kind) == [doc_type |-> kind, title |-> <<>>, text_len |-> 0, years |-> <<>>, links |-> <<>>]

\* (variant that adds the years of the text to the year of the date)
parse_html_DateAndText(body) ==
    LET title == Take(body.title, 200)
        text  == Take(body.text, 8000)
        mt    == MetaTime(body.meta, 1)
    IN [doc_type |-> "html", title |-> title, text_len |-> Len(text),
        years |-> (IF mt # 0 THEN <<mt>> ELSE <<>>) \o extract_year_candidates(title \o <<" ">> \o text),
        links |-> body.links]

parse_html(body) ==
    LET title == Take(body.title, 200)
        text  == Take(body.text, 8000)
        mt    == MetaTime(body.meta, 1)
    IN [doc_type |-> "html", title |-> title, text_len |-> Len(text),
        years |-> IF mt # 0 THEN <<mt>> ELSE extract_year_candidates(title \o <<" ">> \o text),
        links |-> body.links]

\* (variant returning the anchors of the document)
parse_xml_WithLinks(body) ==
    LET title == Take(body.title, 200)
        text  == Take(body.text, 8000)
    IN [doc_type |-> "xml", title |-> title, text_len |-> Len(text),
        years |-> extract_year_candidates(title \o <<" ">> \o text), links |-> body.links]

parse_xml(body) ==
    LET title == Take(body.title, 200)
        text  == Take(body.text, 8000)
    IN [doc_type |-> "xml", title |-> title, text_len |-> Len(text),
        years |-> extract_year_candidates(title \o <<" ">> \o text), links |-> <<>>]

parse_pdf_quick(body) ==
    IF body.size > 0 /\ body.size <= SIZE_LIMIT /\ ~body.raises
    THEN [doc_type |-> "pdf", title |-> <<>>, text_len |-> Len(body.text),
          years |-> extract_year_candidates(Take(body.text, 4000)), links |-> <<>>]
    ELSE DefaultMeta("pdf")

\* the try block of introspect_pref: the extractor of the kind, or the default
\* metadata when the kind has no extractor or the extractor raises
\* (variant without the fallback to the default metadata)
ExtractMeta_NoFallback(kind, body) ==
    IF kind = "html" THEN parse_html(body)
    ELSE IF kind = "xml" THEN parse_xml(body)
    ELSE IF kind = "pdf" THEN parse_pdf_quick([body EXCEPT !.raises = FALSE])
    ELSE DefaultMeta(kind)

ExtractMeta(kind, body) ==
    IF kind = "html" THEN (IF body.raises THEN DefaultMeta(kind) ELSE parse_html(body))
    ELSE IF kind = "xml" THEN (IF body.raises THEN DefaultMeta(kind) ELSE parse_xml(body))
    ELSE IF kind = "pdf" THEN parse_pdf_quick(body)
    ELSE DefaultMeta(kind)

ErrorRow(e, r) ==
    [url |-> e.url, depth |-> e.depth, from |-> e.src, status |-> r.status, ctype |-> r.ct,
     kind |-> "error", title |-> <<>>, years |-> <<>>, text_len |-> 0]

PageRow(e, r, kind, meta) ==
    [url |-> e.url, depth |-> e.depth, from |-> e.src, status |-> r.status, ctype |-> r.ct,
     kind |-> kind, title |-> meta.title, years |-> meta.years, text_len |-> meta.text_len]

\* the guard of the link loop of introspect_pref
\* (variant following links of pages at max_depth as well)
MayFollow_Inclusive(depth, kind) == depth <= max_depth /\ kind \in {"html", "xml"}

MayFollow(depth, kind) == depth < max_depth /\ kind \in {"html", "xml"}

\* the three skip tests of the link loop of introspect_pref
\* (variant without the same-domain test)
KeepLink_AnyDomain(full, start_url, vis) ==
    /\ StartsWith(full, "http")
    /\ full \notin vis

KeepLink(full, start_url, vis) ==
    /\ StartsWith(full, "http")
    /\ T_is_same_domain[start_url, full]
    /\ full \notin vis

\* the entry put for a link of introspect_pref
\* (variant storing the link itself where the page it was found on belongs)
ChildEntry_SelfParent(e, full, text) ==
    [prio |-> -T_priority_score[text, full], depth |-> e.depth + 1, url |-> full, src |-> full]

\* (variant putting every link with priority 0)
ChildEntry_Unscored(e, full, text) ==
    [prio |-> 0, depth |-> e.depth + 1, url |-> full, src |-> e.url]

ChildEntry(e, full, text) ==
    [prio |-> -T_priority_score[text, full], depth |-> e.depth + 1, url |-> full, src |-> e.url]

\* the link loop of introspect_pref from link i on: the queue after it, and
\* whether urljoin raised (the puts made before the raise stay)
RECURSIVE IEnqueue(_, _, _, _, _, _)
IEnqueue(links, i, qq, e, start_url, vis) ==
    IF i > Len(links) THEN [q |-> qq, fault |-> FALSE]
    ELSE IF T_urljoin_raises[<<e.url, links[i].href>>] THEN [q |-> qq, fault |-> TRUE]
    ELSE LET full == T_urljoin[<<e.url, links[i].href>>]
         IN IEnqueue(links, i + 1,
                     IF KeepLink(full, start_url, vis)
                        THEN Append(qq, ChildEntry(e, full, links[i].text)) ELSE qq,
                     e, start_url, vis)

-----------------------------------------------------------------------------
(* Aggregation at the end of introspect_pref                               *)

KINDS == {"html", "xml", "pdf", "csv", "json", "xls", "other", "error"}

CountKind(rr, k) == Cardinality({i \in DOMAIN rr : rr[i].kind = k})

SeqMax(ys) == CHOOSE m \in Range(ys) : \A y \in Range(ys) : y <= m

\* (variant taking the first year collected)
SeqMin_First(ys) == ys[1]

SeqMin(ys) == CHOOSE m \in Range(ys) : \A y \in Range(ys) : m <= y

\* round(a / n, 2) in hundredths, n > 0 (ties to even; exact whenever 100a/n
\* is no tie, which holds for every n that is not a multiple of 8)
\* (variant cutting off after the second decimal)
Round2_Floor(a, n) == (100 * a) \div n

Round2(a, n) ==
    LET d == (100 * a) \div n
        r == (100 * a) % n
    IN IF 2 * r > n THEN d + 1
       ELSE IF 2 * r < n THEN d
       ELSE IF d % 2 = 0 THEN d ELSE d + 1

\* (variant counting only the records that are no error records)
Summary_OkPages(pref, rr, ys) ==
    LET latest   == IF ys # <<>> THEN SeqMax(ys) ELSE NoneInt
        earliest == IF ys # <<>> THEN SeqMin(ys) ELSE NoneInt
        pdf_texty == Cardinality({i \in DOMAIN rr : rr[i].kind = "pdf" /\ rr[i].text_len > 50})
        pdf_total == CountKind(rr, "pdf")
    IN [prefecture |-> pref,
        pages_scanned |-> Len(rr) - CountKind(rr, "error"),
        earliest_year |-> earliest,
        latest_year |-> latest,
        coverage_years |-> IF latest # 0 /\ earliest # 0 THEN latest - earliest + 1 ELSE 0,
        counts |-> [k \in KINDS \ {"error"} |-> CountKind(rr, k)],
        pdf_text_ratio |-> IF pdf_total # 0 THEN Round2(pdf_texty, pdf_total) ELSE 0,
        machine_file_hits |-> CountKind(rr, "csv") + CountKind(rr, "json")
                              + CountKind(rr, "xml") + CountKind(rr, "xls")]

\* (variant reporting a ratio of 1.0 when there is no pdf row)
Summary_FullRatio(pref, rr, ys) ==
    LET latest   == IF ys # <<>> THEN SeqMax(ys) ELSE NoneInt
        earliest == IF ys # <<>> THEN SeqMin(ys) ELSE NoneInt
        pdf_texty == Cardinality({i \in DOMAIN rr : rr[i].kind = "pdf" /\ rr[i].text_len > 50})
        pdf_total == CountKind(rr, "pdf")
    IN [prefecture |-> pref,
        pages_scanned |-> Len(rr),
        earliest_year |-> earliest,
        latest_year |-> latest,
        coverage_years |-> IF latest # 0 /\ earliest # 0 THEN latest - earliest + 1 ELSE 0,
        counts |-> [k \in KINDS \ {"error"} |-> CountKind(rr, k)],
        pdf_text_ratio |-> IF pdf_total # 0 THEN Round2(pdf_texty, pdf_total) ELSE 100,
        machine_file_hits |-> CountKind(rr, "csv") + CountKind(rr, "json")
                              + CountKind(rr, "xml") + CountKind(rr, "xls")]

Summary(pref, rr, ys) ==
    LET latest   == IF ys # <<>> THEN SeqMax(ys) ELSE NoneInt
        earliest == IF ys # <<>> THEN SeqMin(ys) ELSE NoneInt
        pdf_texty == Cardinality({i \in DOMAIN rr : rr[i].kind = "pdf" /\ rr[i].text_len > 50})
        pdf_total == CountKind(rr, "pdf")
    IN [prefecture |-> pref,
        pages_scanned |-> Len(rr),
        earliest_year |-> earliest,
        latest_year |-> latest,
        coverage_years |-> IF latest # 0 /\ earliest # 0 THEN latest - earliest + 1 ELSE 0,
        counts |-> [k \in KINDS \ {"error"} |-> CountKind(rr, k)],
        pdf_text_ratio |-> IF pdf_total # 0 THEN Round2(pdf_texty, pdf_total) ELSE 0,
        machine_file_hits |-> CountKind(rr, "csv") + CountKind(rr, "json")
                              + CountKind(rr, "xml") + CountKind(rr, "xls")]

\* list.sort(key = prefecture): stable insertion into a sorted prefix
RECURSIVE InsertSorted(_, _)
InsertSorted(sorted, x) ==
    IF sorted = <<>> THEN <<x>>
    ELSE IF StrLess(x.prefecture, Head(sorted).prefecture) THEN <<x>> \o sorted
    ELSE <<Head(sorted)>> \o InsertSorted(Tail(sorted), x)

RECURSIVE SortByPref(_)
SortByPref(ss) ==
    IF ss = <<>> THEN <<>>
    ELSE InsertSorted(SortByPref(SubSeq(ss, 1, Len(ss) - 1)), ss[Len(ss)])

-----------------------------------------------------------------------------
(* Actions.  A crawl task is introspect_pref or map_pref for one seed; its *)
(* loop iteration is cut where the code blocks (sleep, the robots.txt      *)
(* read, the page request), which is where other tasks of the pool run.    *)

\* a future without result yet, and one holding the exception of its task
NoResult == [pending |-> TRUE]
Raised == [exception |-> "ValueError"]

Running == {t \in Tasks : pc[t] \notin {"submitted", "done", "failed"}}

SeedEntry(s) ==
    IF prog = "introspect"
    THEN [prio |-> -10, depth |-> 0, url |-> seeds[s].url, src |-> "root"]
    ELSE [prio |-> 0, depth |-> 0, url |-> seeds[s].url, src |-> ""]

\* The task of seed s starts: a pool thread takes it (introspect: submit
\* order, at most `workers` at a time), or main's for-loop reaches it (map).
\* The function creates its frontier with the seed entry.
Start(s) ==
    /\ main_pc = "run"
    /\ pc[s] = "submitted"
    /\ \A t \in 1..(s - 1) : pc[t] # "submitted"
    /\ prog = "introspect" => Cardinality(Running) < workers
    /\ prog = "map" => \A t \in 1..(s - 1) : pc[t] = "done"
    /\ pc' = [pc EXCEPT ![s] = "loop"]
    /\ q' = [q EXCEPT ![s] = <<SeedEntry(s)>>]
    /\ UNCHANGED << cfgvars, ROBOTS, key, visited, cur, rows, years_all, pdf_rows, result,
                    events, collected, summaries, main_pc >>

\* the while condition of both crawl loops
\* (variant without the page cap)
LoopContinues_NoCap(qq, vis) == qq # <<>>

LoopContinues(qq, vis) == qq # <<>> /\ Cardinality(vis) < max_pages

\* Loop head and get: an entry whose URL is visited is dropped, another one is
\* marked visited and becomes the current entry.
\* (variant without the test  url in visited)
Dequeue_NoVisitedTest(s) ==
    /\ pc[s] = "loop"
    /\ LoopContinues(q[s], visited[s])
    /\ LET i == GetIndex(q[s])
           e == q[s][i]
       IN /\ q' = [q EXCEPT ![s] = RemoveAt(q[s], i)]
          /\ visited' = [visited EXCEPT ![s] = visited[s] \cup {e.url}]
          /\ cur' = [cur EXCEPT ![s] = e]
          /\ pc' = [pc EXCEPT ![s] = "sleep"]
          /\ events' = [events EXCEPT ![s] = Append(events[s], [ev |-> "visit", url |-> e.url])]
    /\ UNCHANGED << cfgvars, ROBOTS, key, rows, years_all, pdf_rows, result,
                    collected, summaries, main_pc >>

Dequeue(s) ==
    /\ pc[s] = "loop"
    /\ LoopContinues(q[s], visited[s])
    /\ LET i == GetIndex(q[s])
           e == q[s][i]
       IN /\ q' = [q EXCEPT ![s] = RemoveAt(q[s], i)]
          /\ IF e.url \in visited[s]
             THEN UNCHANGED << pc, visited, cur, events >>
             ELSE /\ visited' = [visited EXCEPT ![s] = visited[s] \cup {e.url}]
                  /\ cur' = [cur EXCEPT ![s] = e]
                  /\ pc' = [pc EXCEPT ![s] = "sleep"]
                  /\ events' = [events EXCEPT ![s] = Append(events[s], [ev |-> "visit", url |-> e.url])]
    /\ UNCHANGED << cfgvars, ROBOTS, key, rows, years_all, pdf_rows, result,
                    collected, summaries, main_pc >>

\* time.sleep(sleep_sec)
\* (variant in which the iteration goes on to fetch without the delay)
Sleep_Skipped(s) ==
    /\ pc[s] = "sleep"
    /\ pc' = [pc EXCEPT ![s] = "robots"]
    /\ UNCHANGED << cfgvars, ROBOTS, key, visited, q, cur, rows, years_all, pdf_rows, result,
                    events, collected, summaries, main_pc >>

Sleep(s) ==
    /\ pc[s] = "sleep"
    /\ pc' = [pc EXCEPT ![s] = "robots"]
    /\ events' = [events EXCEPT ![s] = Append(events[s], [ev |-> "sleep", url |-> cur[s].url])]
    /\ UNCHANGED << cfgvars, ROBOTS, key, visited, q, cur, rows, years_all, pdf_rows, result,
                    collected, summaries, main_pc >>

\* allowed(): compute the key and test  host not in self.cache
RobotsLookup(s) ==
    /\ pc[s] = "robots"
    /\ key' = [key EXCEPT ![s] = T_RobotsKey[cur[s].url]]
    /\ pc' = [pc EXCEPT ![s] = IF T_RobotsKey[cur[s].url] \in DOMAIN ROBOTS THEN "fetch" ELSE "robots_read"]
    /\ UNCHANGED << cfgvars, ROBOTS, visited, q, cur, rows, years_all, pdf_rows, result,
                    events, collected, summaries, main_pc >>

\* allowed(): rp.read() and  self.cache[host] = rp
RobotsRead(s) ==
    /\ pc[s] = "robots_read"
    /\ ROBOTS' = [k \in DOMAIN ROBOTS \cup {key[s]} |->
                    IF k = key[s] THEN rp_read(RobotsOf(key[s])) ELSE ROBOTS[k]]
    /\ events' = [events EXCEPT ![s] = Append(events[s], [ev |-> "robots_read", url |-> key[s]])]
    /\ pc' = [pc EXCEPT ![s] = "fetch"]
    /\ UNCHANGED << cfgvars, key, visited, q, cur, rows, years_all, pdf_rows, result,
                    collected, summaries, main_pc >>

\* the history after fetch: a GET is recorded when one was issued
GetEvents(s) ==
    IF RequestIssued(ROBOTS, cur[s].url)
    THEN Append(events[s], [ev |-> "get", url |-> cur[s].url])
    ELSE events[s]

\* introspect_pref: fetch, then the rest of the iteration (error row, or
\* classify, extract, row, link loop).  urljoin raising in the link loop
\* ends the task with an exception.
IVisit(s) ==
    /\ prog = "introspect"
    /\ pc[s] = "fetch"
    /\ LET e == cur[s]
           r == fetch(ROBOTS, e.url)
       IN /\ events' = [events EXCEPT ![s] = GetEvents(s)]
          /\ IF IsFetchError(r)
             THEN /\ rows' = [rows EXCEPT ![s] = Append(rows[s], ErrorRow(e, r))]
                  /\ pc' = [pc EXCEPT ![s] = "loop"]
                  /\ UNCHANGED << q, years_all, result >>
             ELSE LET kind == T_classify_ext[e.url, r.ct]
                      meta == ExtractMeta(kind, r.body)
                      enq  == IF MayFollow(e.depth, kind)
                                 THEN IEnqueue(meta.links, 1, q[s], e, seeds[s].url, visited[s])
                                 ELSE [q |-> q[s], fault |-> FALSE]
                  IN /\ years_all' = [years_all EXCEPT ![s] = years_all[s] \o meta.years]
                     /\ rows' = [rows EXCEPT ![s] = Append(rows[s], PageRow(e, r, kind, meta))]
                     /\ q' = [q EXCEPT ![s] = enq.q]
                     /\ pc' = [pc EXCEPT ![s] = IF enq.fault THEN "failed" ELSE "loop"]
                     /\ result' = [result EXCEPT ![s] = IF enq.fault THEN Raised ELSE result[s]]
    /\ UNCHANGED << cfgvars, ROBOTS, key, visited, cur, pdf_rows, collected, summaries, main_pc >>

\* introspect_pref: the loop is over; aggregate and return
IFinish(s) ==
    /\ prog = "introspect"
    /\ pc[s] = "loop"
    /\ ~LoopContinues(q[s], visited[s])
    /\ pc' = [pc EXCEPT ![s] = "done"]
    /\ result' = [result EXCEPT ![s] = Summary(seeds[s].pref, rows[s], years_all[s])]
    /\ UNCHANGED << cfgvars, ROBOTS, key, visited, q, cur, rows, years_all, pdf_rows,
                    events, collected, summaries, main_pc >>

\* the try/except around fut.result(): the summary of a task that returned is
\* appended, the exception of a task that raised is printed and dropped
\* (variant in which a raised task discards the summaries taken so far)
AfterResult_Reset(sums, returned, res) == IF returned THEN Append(sums, res) ELSE <<>>

AfterResult(sums, returned, res) == IF returned THEN Append(sums, res) ELSE sums

\* main of introspect: as_completed hands over a finished future; its
\* summary is appended, or its exception is caught and printed
Collect(s) ==
    /\ prog = "introspect"
    /\ main_pc = "run"
    /\ pc[s] \in {"done", "failed"}
    /\ s \notin Range(collected)
    /\ collected' = Append(collected, s)
    /\ summaries' = AfterResult(summaries, pc[s] = "done", result[s])
    /\ UNCHANGED << cfgvars, ROBOTS, pc, key, visited, q, cur, rows, years_all, pdf_rows,
                    result, events, main_pc >>

\* main of introspect: every future was handed over; sort and write the summary
MainEnd ==
    /\ prog = "introspect"
    /\ main_pc = "run"
    /\ Range(collected) = Tasks
    /\ summaries' = SortByPref(summaries)
    /\ main_pc' = "end"
    /\ UNCHANGED << cfgvars, ROBOTS, pc, key, visited, q, cur, rows, years_all, pdf_rows,
                    result, events, collected >>

-----------------------------------------------------------------------------
(* map_pref (pref_site_mapper.py)                                          *)

CtOrEmpty(ct) == IF ct = None THEN "" ELSE ct

\* parse_html_for_links raises when the parser does or when urljoin does on
\* one of the anchors (it joins every href before the link loop starts)
RECURSIVE AnyJoinRaises(_, _, _)
AnyJoinRaises(base, links, i) ==
    IF i > Len(links) THEN FALSE
    ELSE T_urljoin_raises[<<base, links[i].href>>] \/ AnyJoinRaises(base, links, i + 1)

MapParseRaises(url, body) == body.raises \/ AnyJoinRaises(url, body.links, 1)

\* the condition under which map_pref parses the page and walks its anchors
MapParses(r, kind) == r.status = 200 /\ r.body.size > 0 /\ kind = "html"

\* the anchor loop of map_pref from anchor i on: queue, pdf rows and the two counters
RECURSIVE MEnqueue(_, _, _, _, _, _)
MEnqueue(links, i, acc, e, seed, title) ==
    IF i > Len(links) THEN acc
    ELSE LET full == T_urljoin[<<e.url, links[i].href>>]
             text == links[i].text
         IN IF ~StartsWith(full, "http") \/ ~T_is_same_domain[seed.url, full]
            THEN MEnqueue(links, i + 1, acc, e, seed, title)
            ELSE IF EndsWith(T_Lower[full], ".pdf")
            THEN MEnqueue(links, i + 1,
                    [acc EXCEPT !.n_pdf = @ + 1,
                                !.pdfs = Append(@, [prefecture |-> seed.pref, source_page |-> e.url,
                                    depth |-> e.depth, pdf_url |-> full, anchor_text |-> text,
                                    years |-> extract_years_from_text(
                                                 text \o <<" ">> \o title \o <<" ">> \o Chars(full))])],
                    e, seed, title)
            ELSE MEnqueue(links, i + 1,
                    [acc EXCEPT !.n_links = @ + 1,
                                !.q = IF e.depth < max_depth
                                      THEN Append(@, [prio |-> 0, depth |-> e.depth + 1,
                                                      url |-> full, src |-> e.url])
                                      ELSE @],
                    e, seed, title)

MapRow(s, e, r, kind, title, n_links, n_pdf) ==
    [prefecture |-> seeds[s].pref, url |-> e.url, depth |-> e.depth, from |-> e.src,
     status |-> r.status, ctype |-> CtOrEmpty(r.ct), kind |-> kind, title |-> title,
     n_out_links |-> n_links, n_pdf_links |-> n_pdf]

\* map_pref: fetch, then the rest of the iteration.  An exception of
\* parse_html_for_links leaves map_pref and main.
MVisit(s) ==
    /\ prog = "map"
    /\ pc[s] = "fetch"
    /\ LET e == cur[s]
           r == fetch(ROBOTS, e.url)
           kind == T_classify[CtOrEmpty(r.ct), e.url]
       IN /\ events' = [events EXCEPT ![s] = GetEvents(s)]
          /\ IF MapParses(r, kind) /\ MapParseRaises(e.url, r.body)
             THEN /\ pc' = [pc EXCEPT ![s] = "failed"]
                  /\ main_pc' = "aborted"
                  /\ UNCHANGED << q, rows, pdf_rows >>
             ELSE LET title == IF MapParses(r, kind) THEN r.body.title ELSE <<>>
                      acc0 == [q |-> q[s], pdfs |-> pdf_rows[s], n_links |-> 0, n_pdf |-> 0]
                      acc == IF MapParses(r, kind)
                             THEN MEnqueue(r.body.links, 1, acc0, e, seeds[s], title)
                             ELSE acc0
                  IN /\ q' = [q EXCEPT ![s] = acc.q]
                     /\ pdf_rows' = [pdf_rows EXCEPT ![s] = acc.pdfs]
                     /\ rows' = [rows EXCEPT ![s] =
                                   Append(rows[s], MapRow(s, e, r, kind, title, acc.n_links, acc.n_pdf))]
                     /\ pc' = [pc EXCEPT ![s] = "loop"]
                     /\ UNCHANGED main_pc
    /\ UNCHANGED << cfgvars, ROBOTS, key, visited, cur, years_all, result, collected, summaries >>

\* map_pref: the loop is over; the tables are written and main goes on to the
\* next seed (or returns after the last one)
MFinish(s) ==
    /\ prog = "map"
    /\ pc[s] = "loop"
    /\ ~LoopContinues(q[s], visited[s])
    /\ pc' = [pc EXCEPT ![s] = "done"]
    /\ main_pc' = IF s = Len(seeds) THEN "end" ELSE main_pc
    /\ UNCHANGED << cfgvars, ROBOTS, key, visited, q, cur, rows, years_all, pdf_rows, result,
                    events, collected, summaries >>

-----------------------------------------------------------------------------
(* Specifications                                                          *)

InitTasks ==
    /\ ROBOTS = <<>>
    /\ pc = [s \in Tasks |-> "submitted"]
    /\ key = [s \in Tasks |-> ""]
    /\ visited = [s \in Tasks |-> {}]
    /\ q = [s \in Tasks |-> <<>>]
    /\ cur = [s \in Tasks |-> NoEntry]
    /\ rows = [s \in Tasks |-> <<>>]
    /\ years_all = [s \in Tasks |-> <<>>]
    /\ pdf_rows = [s \in Tasks |-> <<>>]
    /\ result = [s \in Tasks |-> NoResult]
    /\ events = [s \in Tasks |-> <<>>]
    /\ collected = <<>>
    /\ summaries = <<>>
    /\ main_pc = "run"

\* a crawl run makes no direct call
NoDirectCall == call = NoCall /\ ret = NoRet

\* one seed, either script, every site
Init ==
    /\ prog \in {"introspect", "map"}
    /\ \/ seeds = <<SeedX>> /\ web \in XWebs
       \/ seeds = <<SeedG>> /\ web \in GWebs
    /\ max_pages \in 0..MaxPagesBound
    /\ max_depth \in 0..MaxDepthBound
    /\ workers = 1
    /\ InitTasks
    /\ NoDirectCall

\* several seeds in the pool of pref_site_introspect.py
InitPool ==
    /\ prog = "introspect"
    /\ seeds \in PoolSeeds
    /\ web \in PoolWebs
    /\ max_pages \in 1..2
    /\ max_depth = 1
    /\ workers \in 1..MaxWorkers
    /\ InitTasks
    /\ NoDirectCall

NextIntrospect ==
    \/ \E s \in Tasks : Start(s)
    \/ \E s \in Tasks : Dequeue(s)
    \/ \E s \in Tasks : Sleep(s)
    \/ \E s \in Tasks : RobotsLookup(s)
    \/ \E s \in Tasks : RobotsRead(s)
    \/ \E s \in Tasks : IVisit(s)
    \/ \E s \in Tasks : IFinish(s)
    \/ \E s \in Tasks : Collect(s)
    \/ MainEnd

NextMap ==
    \/ \E s \in Tasks : MVisit(s)
    \/ \E s \in Tasks : MFinish(s)

Next == NextIntrospect \/ NextMap

Spec == Init /\ [][Next]_vars

SpecPool == InitPool /\ [][NextIntrospect]_vars

-----------------------------------------------------------------------------
(* Direct calls of the pure functions: the year heuristics, the scorer,    *)
(* the two classifiers and the aggregation, each on arguments drawn from   *)
(* a bounded set.                                                          *)

MaxPieces == 3
MaxEraYear == 31
MaxWords == 2
MaxRows == 3

\* text pieces: 2024-nen, 2031, reiwa(full-width space)5-nendo, heisei 1-nen,
\* heisei 30-nendo, the guard word yotei, and fillers of 19 and of 18
\* characters (a guard word behind them ends one character outside, or just
\* inside, the window of a year token before them)
PY2024 == <<"2", "0", "2", "4", "nen">>
PY2031 == <<"2", "0", "3", "1">>
PR5 == <<"rei", "wa", "fwsp", "5", "nen", "do">>
PH1 == <<"hei", "naru", "1", "nen">>
PH30 == <<"hei", "naru", " ", "3", "0", "nen", "do">>
PG == <<"yo", "tei">>
PPAD == [i \in 1..19 |-> "x"]
PPAD18 == [i \in 1..18 |-> "x"]

Pieces == {PY2024, PY2031, PR5, PH1, PH30, PG, PPAD, PPAD18}

RECURSIVE Concat(_)
Concat(ps) == IF ps = <<>> THEN <<>> ELSE Head(ps) \o Concat(Tail(ps))

\* the decimal digits of n < 100 as characters
DigitsOf(n) ==
    LET d(k) == SubSeq(DIGITS, k + 1, k + 1)
    IN IF n < 10 THEN <<d(n)>> ELSE <<d(n \div 10), d(n % 10)>>

\* an era token: era name, optional space, era year, "nen"
EraToken(c) == c.era \o c.sp \o DigitsOf(c.n) \o <<"nen">>

\* anchor texts made of keywords and a filler word
Words == {<<"yo", "satsu">>, <<"hatsu", "sei", "yo", "satsu">>, <<"byou", "gai", "mushi">>,
          BACKNUMBER, <<"nen", "do">>, <<"o", "shi", "ra", "se">>}

ScoreUrls ==
    {UB, UH, "http://x.example/BACK/2023/", "http://x.example/yosatsu/yosatsu.html",
     "http://x.example/byogaichu/", "http://x.example/id/120345"}

ClassifyTypes ==
    {"", "application/pdf", "text/html; charset=utf-8", "application/xml", "application/xhtml+xml",
     "text/csv", "application/json", "application/octet-stream"}

ClassifyUrls ==
    {"http://x.example/" \o f :
        f \in {"a.pdf", "A.PDF", "feed.xml", "t.csv", "d.json", "s.xlsx", "s.xls", "s.xlsm",
               "p.html", "p.htm", "dir/", "plain"}}

\* rows_detail entries for the aggregation
AggRow(kind, n) ==
    [url |-> UA, depth |-> 0, from |-> "root", status |-> 200, ctype |-> "", kind |-> kind,
     title |-> <<>>, years |-> <<>>, text_len |-> n]

AggRows == {AggRow("pdf", 0), AggRow("pdf", 50), AggRow("pdf", 51), AggRow("html", 100),
            AggRow("error", 0)}

\* HTML documents: a title, a text, and every filling of the three date
\* locations with nothing (0), a value dateutil rejects (-1) or a date
DateValues == {0, -1, 2021, 2022}

HtmlBodies ==
    {[title |-> t, text |-> x, meta |-> m, links |-> <<>>, raises |-> FALSE, size |-> 1000] :
        t \in {<<>>, PR5}, x \in {<<>>, PY2024, PY2031}, m \in [1..3 -> DateValues]}

Calls ==
    {[fn |-> "years", pieces |-> ps] : ps \in UNION {[1..n -> Pieces] : n \in 0..MaxPieces}}
    \cup {[fn |-> "era", era |-> e, sp |-> sp, n |-> n] :
            e \in {REIWA, HEISEI}, sp \in {<<>>, <<" ">>}, n \in 1..MaxEraYear}
    \cup {[fn |-> "score", text |-> Concat(ws), url |-> u] :
            ws \in UNION {[1..n -> Words] : n \in 0..MaxWords}, u \in ScoreUrls}
    \cup {[fn |-> "classify", ct |-> ct, url |-> u] : ct \in ClassifyTypes, u \in ClassifyUrls}
    \cup {[fn |-> "summary", rows |-> rr] : rr \in UNION {[1..n -> AggRows] : n \in 0..MaxRows}}
    \cup {[fn |-> "parse_html", body |-> b] : b \in HtmlBodies}

Returns(v) ==
    /\ ~ret.done
    /\ ret' = [done |-> TRUE, val |-> v]
    /\ UNCHANGED << call, crawlvars >>

CallYears == call.fn = "years" /\ Returns(extract_year_candidates(Concat(call.pieces)))

CallEra ==
    /\ call.fn = "era"
    /\ Returns([introspect |-> extract_year_candidates(EraToken(call)),
                mapper |-> extract_years_from_text(EraToken(call))])

CallScore == call.fn = "score" /\ Returns(priority_score(call.text, call.url))

CallClassify ==
    /\ call.fn = "classify"
    /\ Returns([introspect |-> classify_ext(call.url, call.ct), mapper |-> classify(call.ct, call.url)])

CallSummary == call.fn = "summary" /\ Returns(Summary("p", call.rows, Concat([i \in DOMAIN call.rows |-> call.rows[i].years])))

CallParseHtml == call.fn = "parse_html" /\ Returns(parse_html(call.body))

InitPure ==
    /\ prog = "introspect"
    /\ seeds = <<>>
    /\ web = [pages |-> <<>>, robots |-> <<>>]
    /\ max_pages = 0
    /\ max_depth = 0
    /\ workers = 1
    /\ InitTasks
    /\ call \in Calls
    /\ ret = NoRet

NextPure ==
    \/ CallYears
    \/ CallEra
    \/ CallScore
    \/ CallClassify
    \/ CallSummary
    \/ CallParseHtml

SpecPure == InitPure /\ [][NextPure]_vars

-----------------------------------------------------------------------------
(* Properties                                                              *)

NoDup(seq) == \A i, j \in DOMAIN seq : i # j => seq[i] # seq[j]

RowUrls(s) == [i \in DOMAIN rows[s] |-> rows[s][i].url]

\* number of events of a kind for a URL in the history of task s
EventCount(s, kind, u) ==
    Cardinality({i \in DOMAIN events[s] : events[s][i].ev = kind /\ events[s][i].url = u})

\* C1: in both crawl loops, at every state, the visited set of a seed has at
\* most max_pages URLs, fetch is called at most once per URL, at most one GET
\* is issued per URL, and a URL has at most one row in the seed's records.
C1_BoundedOnce ==
    \A s \in Tasks :
        /\ Cardinality(visited[s]) <= max_pages
        /\ NoDup(RowUrls(s))
        /\ \A u \in visited[s] : EventCount(s, "visit", u) <= 1 /\ EventCount(s, "get", u) <= 1
        /\ \A i \in DOMAIN events[s] : events[s][i].ev \in {"visit", "get"} => events[s][i].url \in visited[s]

\* a finished crawl that stopped at the page cap with entries left over, saw
\* a failed fetch and had dropped a URL that was enqueued twice
C1_Witness ==
    \E s \in Tasks :
        /\ pc[s] = "done"
        /\ max_pages >= 2
        /\ Cardinality(visited[s]) = max_pages
        /\ q[s] # <<>>
        /\ \E i \in DOMAIN rows[s] : rows[s][i].status # 200
        /\ \E i \in DOMAIN q[s] : q[s][i].url \in visited[s]

\* C2: every frontier entry other than the seed entry has the depth of the
\* page it was found on plus one, and no entry that is waiting, being fetched
\* or recorded has a depth above max_depth (max_depth >= 0).
C2_DepthBound ==
    \A s \in Tasks :
        /\ \A i \in DOMAIN q[s] :
              /\ q[s][i].depth <= max_depth
              /\ q[s][i].depth > 0 =>
                    \E j \in DOMAIN rows[s] :
                        rows[s][j].url = q[s][i].src /\ rows[s][j].depth + 1 = q[s][i].depth
              /\ q[s][i].depth = 0 => q[s][i].url = seeds[s].url
        /\ cur[s].depth <= max_depth
        /\ \A j \in DOMAIN rows[s] : rows[s][j].depth <= max_depth

\* a page at depth max_depth >= 2 was fetched, it carries anchors, and none of
\* them was put on the frontier
C2_Witness ==
    \E s \in Tasks :
        /\ max_depth >= 2
        /\ pc[s] = "loop"
        /\ \E j \in DOMAIN rows[s] :
              /\ rows[s][j].depth = max_depth
              /\ rows[s][j].status = 200
              /\ PageOf(rows[s][j].url).body.links # <<>>
              /\ \A i \in DOMAIN q[s] : q[s][i].src # rows[s][j].url

\* C3: in introspect_pref, the entry a get() removes from the frontier has a
\* priority_score at least as high as every entry of the same depth that
\* stays behind, wherever the two stand in insertion order.
C3_PriorityOrder ==
    [][\A s \in Tasks :
          (prog = "introspect" /\ Len(q'[s]) = Len(q[s]) - 1) =>
              \E i \in DOMAIN q[s] :
                  /\ q'[s] = RemoveAt(q[s], i)
                  /\ \A j \in DOMAIN q[s] :
                        q[s][j].depth = q[s][i].depth => -q[s][i].prio >= -q[s][j].prio]_vars

\* the seed page lists /c (score 0) before /b (score 6); /b has been dequeued
\* while /c, put first, is still waiting at the same depth
C3_Witness ==
    \E s \in Tasks :
        /\ prog = "introspect"
        /\ PageOf(UA).body.links = <<LC, LB>>
        /\ pc[s] = "sleep"
        /\ cur[s].url = UB
        /\ q[s] # <<>>
        /\ q[s][1].url = UC
        /\ q[s][1].depth = cur[s].depth
        /\ -cur[s].prio > -q[s][1].prio

\* the end-to-end scenario of the specification
E2E ==
    /\ prog = "introspect"
    /\ seeds = <<SeedX>>
    /\ max_pages = 2
    /\ max_depth = 1
    /\ web.pages[UA] = Html(<<LB>>)
    /\ web.pages[UB] = Html(<<LC>>)
    /\ web.robots[KX] = OkRobots({})

\* C4: in the end-to-end scenario (seed /a, max_pages 2, max_depth 1, /a links
\* to /b with a keyword anchor, /b links to /c) the task ends with exactly the
\* two records /a, /b in this order and /c is never fetched.
C4_EndToEnd ==
    E2E =>
        /\ EventCount(1, "visit", UC) = 0 /\ EventCount(1, "get", UC) = 0
        /\ pc[1] # "failed"
        /\ pc[1] = "done" => RowUrls(1) = <<UA, UB>> /\ result[1].pages_scanned = 2

C4_Witness == E2E /\ pc[1] = "done" /\ main_pc = "end"

\* C5: every URL on the frontier or in the records of a seed starts with
\* "http" and has the seed's host or shares the suffix .go.jp with it; and an
\* anchor to another subdomain under .go.jp on a followed page of a .go.jp
\* seed is put on the frontier.
C5_SameDomain ==
    \A s \in Tasks :
        LET ok(u) == /\ StartsWith(u, "http")
                     /\ \/ T_HostOf[u] = T_HostOf[seeds[s].url]
                        \/ EndsWith(T_HostOf[u], ".go.jp") /\ EndsWith(T_HostOf[seeds[s].url], ".go.jp")
        IN /\ \A i \in DOMAIN q[s] : ok(q[s][i].url)
           /\ \A i \in DOMAIN rows[s] : ok(rows[s][i].url)
           /\ \A u \in visited[s] : ok(u)
           /\ (/\ seeds[s].url = UG
               /\ max_depth >= 1
               /\ \E i \in DOMAIN rows[s] : rows[s][i].url = UG /\ rows[s][i].status = 200
               /\ LGH \in Range(PageOf(UG).body.links))
              => (UH \in visited[s] \/ \E i \in DOMAIN q[s] : q[s][i].url = UH)

\* the page of a .go.jp seed carried an anchor to a foreign domain and one to
\* another .go.jp subdomain; only the second is on the frontier
C5_Witness ==
    \E s \in Tasks :
        /\ seeds[s].url = UG
        /\ PageOf(UG).body.links = <<LGA, LGH>>
        /\ \E i \in DOMAIN q[s] : q[s][i].url = UH
        /\ T_HostOf[UH] # T_HostOf[UG]

\* C6: when the robots.txt of a host could not be read (transport error, or a
\* server error that leaves the rules unread), the cached parser allows every
\* URL of that host.
C6_FailOpen ==
    \A k \in DOMAIN ROBOTS :
        RobotsOf(k).kind \in {"neterr", "http500"} =>
            \A u \in Urls : T_RobotsKey[u] = k => T_can_fetch[ROBOTS[k], u]

\* number of robots.txt reads for cache key k, over all tasks
RobotsReads(k) ==
    Cardinality(UNION {{<<s, i>> : i \in {j \in DOMAIN events[s] :
                                              events[s][j].ev = "robots_read" /\ events[s][j].url = k}} :
                       s \in Tasks})

\* C7: for each scheme://host the robots.txt is read and parsed at most once
\* per run, also when several pool threads meet the host at the same time.
C7_ReadOnce == \A k \in {KX, KG, KH} : RobotsReads(k) <= 1

\* C8: main of pref_site_introspect never ends by an exception of a task, and
\* when it has ended every task was taken from as_completed and the summary
\* list holds exactly the summaries of the tasks that returned, once each.
C8_FailureIsolation ==
    /\ main_pc # "aborted"
    /\ main_pc = "end" =>
          /\ Range(collected) = Tasks
          /\ \A s \in Tasks : pc[s] \in {"done", "failed"}
          /\ Len(summaries) = Cardinality({s \in Tasks : pc[s] = "done"})
          /\ \A s \in Tasks : pc[s] = "done" =>
                Cardinality({i \in DOMAIN summaries : summaries[i] = result[s]})
                    = Cardinality({t \in Tasks : pc[t] = "done" /\ result[t] = result[s]})

\* main has ended, one task raised and another returned
C8_Witness ==
    /\ main_pc = "end"
    /\ \E s, t \in Tasks : pc[s] = "failed" /\ pc[t] = "done" /\ result[t] \in Range(summaries)

\* C9: in introspect_pref, an iteration whose fetch is refused by robots,
\* raises, or answers with a status other than 200 appends exactly one row of
\* kind "error" with empty title, no years and text_len 0 for the URL, leaves
\* the frontier as it is and returns to the loop head.
C9_ErrorRow ==
    [][\A s \in Tasks :
          LET u == cur[s].url
              failed == \/ ~RequestIssued(ROBOTS, u)
                        \/ PageOf(u).err # None
                        \/ PageOf(u).status # 200
          IN (prog = "introspect" /\ pc[s] = "fetch" /\ pc'[s] # "fetch" /\ failed) =>
                /\ Len(rows'[s]) = Len(rows[s]) + 1
                /\ SubSeq(rows'[s], 1, Len(rows[s])) = rows[s]
                /\ LET row == rows'[s][Len(rows'[s])]
                   IN row.url = u /\ row.kind = "error" /\ row.title = <<>>
                      /\ row.years = <<>> /\ row.text_len = 0
                /\ q'[s] = q[s]
                /\ years_all'[s] = years_all[s]
                /\ pc'[s] = "loop"]_vars

\* a 404 without transport error produced an error row and the crawl went on
\* to record a later page
C9_Witness ==
    \E s \in Tasks :
        /\ prog = "introspect"
        /\ \E i \in DOMAIN rows[s] :
              /\ rows[s][i].kind = "error" /\ rows[s][i].status = 404
              /\ i < Len(rows[s])
              /\ rows[s][i + 1].kind # "error"

\* C10: a crawl task stops only at DONE, and only when its frontier is empty
\* or its visited set has reached max_pages.
C10_StopsOnlyAtDone ==
    \A s \in Tasks :
        pc[s] \in {"done", "failed"} =>
            /\ pc[s] = "done"
            /\ q[s] = <<>> \/ Cardinality(visited[s]) >= max_pages


\* C11: every year in the years field of a record of introspect_pref, and
\* every year collected in years_all, lies between 1990 and the current year,
\* whether it comes from the year heuristic or from a meta date of the page.
C11_YearsInRange ==
    \A s \in Tasks :
        prog = "introspect" =>
            /\ \A i \in DOMAIN rows[s] : \A j \in DOMAIN rows[s][i].years :
                  1990 <= rows[s][i].years[j] /\ rows[s][i].years[j] <= current_year
            /\ \A j \in DOMAIN years_all[s] :
                  1990 <= years_all[s][j] /\ years_all[s][j] <= current_year


\* the year a text piece stands for (0: the piece is no year token)
PieceYear(pc0) ==
    IF pc0 = PY2024 THEN 2024
    ELSE IF pc0 = PY2031 THEN 2031
    ELSE IF pc0 = PR5 THEN 2023
    ELSE IF pc0 = PH1 THEN 1989
    ELSE IF pc0 = PH30 THEN 2018
    ELSE 0

\* first and last character position of piece k in the concatenated text
PieceStart(ps, k) == Len(Concat(SubSeq(ps, 1, k - 1))) + 1
PieceEnd(ps, k) == Len(Concat(SubSeq(ps, 1, k)))

\* piece k is a year token, and a guard word lies wholly within the 20
\* characters before its start and the 20 characters after its end
GuardNear(ps, k) ==
    \E g \in DOMAIN ps :
        /\ ps[g] = PG
        /\ PieceStart(ps, g) >= PieceStart(ps, k) - 20
        /\ PieceEnd(ps, g) <= PieceEnd(ps, k) + 20

\* the years of the pieces from k on that are neither future, nor before
\* 1990, nor near a guard word, in text order
RECURSIVE ExpectedYears(_, _)
ExpectedYears(ps, k) ==
    IF k > Len(ps) THEN <<>>
    ELSE LET y == PieceYear(ps[k])
         IN (IF y # 0 /\ 1990 <= y /\ y <= current_year /\ ~GuardNear(ps, k) THEN <<y>> ELSE <<>>)
            \o ExpectedYears(ps, k + 1)

\* C12: extract_year_candidates returns no year above the current year and no
\* year of a match that has a guard word within 20 characters before or after
\* it; the years it returns are those of the remaining matches, in text order,
\* repeated as often as they occur.
C12_NoFutureNoGuard ==
    (call.fn = "years" /\ ret.done) =>
        /\ \A j \in DOMAIN ret.val : ret.val[j] <= current_year
        /\ \A k \in DOMAIN call.pieces :
              GuardNear(call.pieces, k) =>
                  Cardinality({j \in DOMAIN ret.val : ret.val[j] = PieceYear(call.pieces[k])})
                      <= Cardinality({m \in DOMAIN call.pieces :
                                         /\ PieceYear(call.pieces[m]) = PieceYear(call.pieces[k])
                                         /\ ~GuardNear(call.pieces, m)})
        /\ ret.val = ExpectedYears(call.pieces, 1)

\* the call on  yotei 2024-nen 2031  has returned: the first year has the
\* guard word right before it, the second is in the future, nothing is kept
C12_Witness ==
    /\ call.fn = "years"
    /\ ret.done
    /\ call.pieces = <<PG, PY2024, PY2031>>
    /\ ret.val = <<>>


\* the offset of an era: era year n is the western year offset + n
EraOffset(era) == IF era = REIWA THEN 2018 ELSE 1988

\* C13 as stated: for both eras, at era year 1 and at era year 5, both year
\* heuristics return exactly the western year offset + n for the token.
C13_EraYearReturned ==
    (call.fn = "era" /\ ret.done /\ call.n \in {1, 5}) =>
        /\ ret.val.introspect = <<EraOffset(call.era) + call.n>>
        /\ ret.val.mapper = <<EraOffset(call.era) + call.n>>

\* C13: an era token with era year n stands for the western year offset + n
\* (2018 + n and 1988 + n).  extract_years_from_text returns it unless it lies
\* after the current year; extract_year_candidates returns it only if it lies
\* in 1990..current year, so era year 1 of the second era (1989) is returned
\* by the first function and by no call of the second.
C13_EraConversion ==
    (call.fn = "era" /\ ret.done) =>
        LET y == EraOffset(call.era) + call.n
        IN /\ ret.val.mapper = IF y <= current_year THEN <<y>> ELSE <<>>
           /\ ret.val.introspect = IF 1990 <= y /\ y <= current_year THEN <<y>> ELSE <<>>

\* the call on the token  heisei 1-nen  has returned
C13_Witness ==
    /\ call.fn = "era" /\ ret.done
    /\ call.era = HEISEI /\ call.n = 1 /\ call.sp = <<>>
    /\ ret.val.mapper = <<1989>>
    /\ ret.val.introspect = <<>>


\* the positions at which p occurs in s (strings, or texts)
Occurrences(p, s) == {i \in 1..(Len(s) - Len(p) + 1) : SubSeq(s, i, i + Len(p) - 1) = p}

\* the entries of a list that occur in s, and the occurrences of all entries
ListHits(list, s) == Cardinality({k \in DOMAIN list : Occurrences(list[k], s) # {}})

ListOccurrences(list, s) ==
    Cardinality(UNION {{<<k, i>> : i \in Occurrences(list[k], s)} : k \in DOMAIN list})

\* the two single points of the score: a 20 followed by two digits in the
\* URL; "back" in the lower-cased URL or the back-number word in the text
YearPoint(url) ==
    IF \E i \in Occurrences("20", url) :
          i + 3 <= Len(url) /\ Occurrences(SubSeq(url, i + 2, i + 2), DIGITS) # {}
                            /\ Occurrences(SubSeq(url, i + 3, i + 3), DIGITS) # {}
    THEN 1 ELSE 0

ArchivePoints(text, url) ==
    IF Occurrences("back", Lower(url)) # {} \/ Occurrences(BACKNUMBER, text) # {} THEN 2 ELSE 0

\* C14 as stated: the score adds 3 for every occurrence of a keyword in the
\* anchor text and 2 for every occurrence of a hint in the lower-cased URL,
\* plus the year point and the archive points.
C14_ScorePerOccurrence ==
    (call.fn = "score" /\ ret.done) =>
        ret.val = 3 * ListOccurrences(KEYWORDS, call.text)
                  + 2 * ListOccurrences(URL_HINTS, Lower(call.url))
                  + YearPoint(call.url) + ArchivePoints(call.text, call.url)

\* C14: priority_score adds 3 for every entry of the keyword list that occurs
\* in the anchor text and 2 for every entry of the hint list that occurs in
\* the lower-cased URL (an entry counts once however often it occurs, and
\* entries contained in one another all count), plus 1 if the URL contains 20
\* followed by two digits, plus 2 if the lower-cased URL contains "back" or
\* the text contains the back-number word.
C14_ScorePerEntry ==
    (call.fn = "score" /\ ret.done) =>
        ret.val = 3 * ListHits(KEYWORDS, call.text)
                  + 2 * ListHits(URL_HINTS, Lower(call.url))
                  + YearPoint(call.url) + ArchivePoints(call.text, call.url)

\* the call on a text that repeats one keyword and a URL that repeats one
\* hint has returned 3 + 2
C14_Witness ==
    /\ call.fn = "score" /\ ret.done
    /\ call.text = <<"yo", "satsu", "yo", "satsu">>
    /\ call.url = "http://x.example/yosatsu/yosatsu.html"
    /\ ret.val = 5


\* the seed page /a carries exactly the anchor /b with the text
\* hassei-yosatsu-jouhou and the anchor /c with an empty text, in either order
TwoAnchors(s) ==
    /\ prog = "introspect"
    /\ seeds[s].url = UA
    /\ PageOf(UA).body.links \in {<<LB, LC>>, <<LC, LB>>}

\* the frontier entries put for url while the seed page /a was processed
EntriesFromSeed(s, url) == {i \in DOMAIN q[s] : q[s][i].url = url /\ q[s][i].src = UA}

\* C15 as stated: the link with the anchor text hassei-yosatsu-jouhou and a
\* plain URL is put on the frontier with score 3.
C15_ScoreThree ==
    \A s \in Tasks :
        TwoAnchors(s) => \A i \in EntriesFromSeed(s, UB) : -q[s][i].prio = 3

\* C15: the link with the anchor text hassei-yosatsu-jouhou and a plain URL
\* is put on the frontier with score 6 (the text contains the two keyword
\* list entries yosatsu and hassei-yosatsu), the link with no match with
\* score 0, and the first is dequeued before the second.
C15_ScoreSixFirst ==
    \A s \in Tasks :
        TwoAnchors(s) =>
            /\ \A i \in EntriesFromSeed(s, UB) : -q[s][i].prio = 6
            /\ \A i \in EntriesFromSeed(s, UC) : -q[s][i].prio = 0
            /\ UC \in visited[s] => UB \in visited[s]
            /\ EntriesFromSeed(s, UB) # {} => EntriesFromSeed(s, UC) # {}

\* both links were put, /c first, and /b has been dequeued while /c waits
C15_Witness ==
    \E s \in Tasks :
        /\ TwoAnchors(s)
        /\ PageOf(UA).body.links = <<LC, LB>>
        /\ cur[s].url = UB /\ -cur[s].prio = 6
        /\ UC \notin visited[s]
        /\ EntriesFromSeed(s, UC) # {}
        /\ EntriesFromSeed(s, UB) = {}


\* the pdf rows of a row list, and those with more than 50 characters of text
PdfRows(rr) == {i \in DOMAIN rr : rr[i].kind = "pdf"}
TextPdfRows(rr) == {i \in PdfRows(rr) : rr[i].text_len > 50}

\* C16: pdf_text_ratio, in hundredths, is the hundredth nearest to (pdf rows
\* with text_len > 50) / (pdf rows); it is 0 without pdf rows, 67 for two of
\* three, and never below 0 or above 100.
C16_PdfTextRatio ==
    (call.fn = "summary" /\ ret.done) =>
        LET n == Cardinality(PdfRows(call.rows))
            a == Cardinality(TextPdfRows(call.rows))
            r == ret.val.pdf_text_ratio
        IN /\ 0 <= r /\ r <= 100
           /\ n = 0 => r = 0
           /\ n > 0 => (2 * (100 * a - r * n) <= n /\ 2 * (r * n - 100 * a) <= n)
           /\ (n = 3 /\ a = 2) => r = 67

\* the aggregation of three pdf rows with text_len 51, 50 and 51 has returned
C16_Witness ==
    /\ call.fn = "summary" /\ ret.done
    /\ call.rows = <<AggRow("pdf", 51), AggRow("pdf", 50), AggRow("pdf", 51)>>
    /\ ret.val.pdf_text_ratio = 67


\* all years of all records of a seed
RecordYears(s) == UNION {Range(rows[s][i].years) : i \in DOMAIN rows[s]}

\* C17: in the summary of introspect_pref, when the records carry a year,
\* earliest_year and latest_year are the smallest and the largest year of all
\* records and coverage_years = latest_year - earliest_year + 1 >= 1; when
\* they carry none, both years are null and coverage_years is 0.
C17_CoverageYears ==
    \A s \in Tasks :
        (prog = "introspect" /\ pc[s] = "done") =>
            LET Y == RecordYears(s)
                r == result[s]
            IN IF Y = {}
               THEN r.earliest_year = NoneInt /\ r.latest_year = NoneInt /\ r.coverage_years = 0
               ELSE /\ r.earliest_year \in Y /\ \A y \in Y : r.earliest_year <= y
                    /\ r.latest_year \in Y /\ \A y \in Y : y <= r.latest_year
                    /\ r.coverage_years = r.latest_year - r.earliest_year + 1
                    /\ r.coverage_years >= 1

\* a finished crawl whose later record carries a year before those of its
\* first record, with a span of several years
C17_Witness ==
    \E s \in Tasks :
        /\ prog = "introspect" /\ pc[s] = "done"
        /\ Len(rows[s]) >= 2
        /\ rows[s][1].years = <<2023, 2024>>
        /\ result[s].earliest_year < 2023
        /\ result[s].latest_year = 2024
        /\ result[s].coverage_years = 2024 - result[s].earliest_year + 1

\* C18: a task of introspect_pref that ends without a record (max_pages = 0)
\* returns a summary with pages_scanned 0, every count 0, both years null,
\* coverage_years 0, pdf_text_ratio 0 and machine_file_hits 0.
C18_ZeroRecords ==
    \A s \in Tasks :
        (prog = "introspect" /\ pc[s] \in {"done", "failed"} /\ rows[s] = <<>>) =>
            /\ pc[s] = "done"
            /\ max_pages = 0
            /\ result[s].prefecture = seeds[s].pref
            /\ result[s].pages_scanned = 0
            /\ \A k \in DOMAIN result[s].counts : result[s].counts[k] = 0
            /\ result[s].earliest_year = NoneInt /\ result[s].latest_year = NoneInt
            /\ result[s].coverage_years = 0
            /\ result[s].pdf_text_ratio = 0
            /\ result[s].machine_file_hits = 0

\* a task run with max_pages = 0 has returned its summary
C18_Witness ==
    \E s \in Tasks :
        /\ prog = "introspect" /\ max_pages = 0
        /\ pc[s] = "done" /\ rows[s] = <<>> /\ visited[s] = {}
        /\ result[s].pages_scanned = 0


\* the rules of the classifier on a content type and a URL
HasSuffix(url, sufs) == \E x \in sufs : EndsWith(Lower(url), x)
PdfRule(ct, url) == Occurrences("pdf", ct) # {} \/ HasSuffix(url, {".pdf"})
XmlRule(ct, url) == Occurrences("xml", ct) # {} \/ HasSuffix(url, {".xml"})
HtmlRule(ct, url) == Occurrences("html", ct) # {} \/ HasSuffix(url, {".html", ".htm", "/"})

\* the kind the fixed order pdf, xml, csv / json / spreadsheet, html, other gives
OrderedKind(ct, url) ==
    IF PdfRule(ct, url) THEN "pdf"
    ELSE IF XmlRule(ct, url) THEN "xml"
    ELSE IF HasSuffix(url, {".csv"}) THEN "csv"
    ELSE IF HasSuffix(url, {".json"}) THEN "json"
    ELSE IF HasSuffix(url, {".xlsx", ".xls", ".xlsm"}) THEN "xls"
    ELSE IF HtmlRule(ct, url) THEN "html"
    ELSE "other"

\* C19: classify_ext and classify both return, for every content type and
\* URL, the kind of the first rule that applies in the order pdf, xml, csv /
\* json / spreadsheet, html, other; an input under a pdf or xml rule is pdf
\* or xml also when an html rule applies, and pdf wins over xml.
C19_FixedOrder ==
    (call.fn = "classify" /\ ret.done) =>
        /\ ret.val.introspect = OrderedKind(call.ct, call.url)
        /\ ret.val.mapper = OrderedKind(call.ct, call.url)
        /\ PdfRule(call.ct, call.url) => ret.val.introspect = "pdf" /\ ret.val.mapper = "pdf"
        /\ (XmlRule(call.ct, call.url) /\ ~PdfRule(call.ct, call.url))
              => ret.val.introspect = "xml" /\ ret.val.mapper = "xml"


\* the tasks that returned a summary
Returned == {s \in Tasks : pc[s] = "done"}

\* the summaries in the one order that depends on the seed list alone: by
\* label, and by position in the seed list among equal labels
InSeedOrder(table) ==
    \E f \in [DOMAIN table -> Returned] :
        /\ \A i \in DOMAIN table : table[i] = result[f[i]]
        /\ \A i, j \in DOMAIN table :
              i < j => \/ StrLess(seeds[f[i]].pref, seeds[f[j]].pref)
                       \/ seeds[f[i]].pref = seeds[f[j]].pref /\ f[i] < f[j]

\* C20: when main of pref_site_introspect.py has ended, the summary table is
\* ascending by label and is the same table whatever the order in which the
\* tasks completed: the summaries of the returned tasks by label and, among
\* equal labels, by seed position.
C20_SameTable ==
    main_pc = "end" =>
        /\ \A i, j \in DOMAIN summaries :
              i < j => ~StrLess(summaries[j].prefecture, summaries[i].prefecture)
        /\ Len(summaries) = Cardinality(Returned)
        /\ InSeedOrder(summaries)

-----------------------------------------------------------------------------
(* The frontier, the visited set and the records (C21 to C30)              *)

\* C21 (as stated): in introspect_pref, the entry a get() removes has no entry
\* of equal priority that was inserted before it.
C21_FifoTieBreak ==
    [][\A s \in Tasks :
          (prog = "introspect" /\ Len(q'[s]) = Len(q[s]) - 1) =>
              \E i \in DOMAIN q[s] :
                  /\ q'[s] = RemoveAt(q[s], i)
                  /\ \A j \in 1..(i - 1) : q[s][j].prio # q[s][i].prio]_vars

\* C21 (amended): in introspect_pref, among the frontier entries of equal
\* priority the one removed by get() has the smallest depth and, among those
\* of that depth, the smallest URL in string order, wherever it stands in
\* insertion order.
C21_TupleTieBreak ==
    [][\A s \in Tasks :
          (prog = "introspect" /\ Len(q'[s]) = Len(q[s]) - 1) =>
              \E i \in DOMAIN q[s] :
                  /\ q'[s] = RemoveAt(q[s], i)
                  /\ \A j \in DOMAIN q[s] :
                        q[s][j].prio = q[s][i].prio =>
                            \/ q[s][i].depth < q[s][j].depth
                            \/ /\ q[s][i].depth = q[s][j].depth
                               /\ ~T_StrLess[q[s][j].url, q[s][i].url]]_vars

\* the seed page lists /c before /b, both with score 0; /b has been dequeued
\* while /c, put first with the same priority and depth, is still waiting
C21_Witness ==
    \E s \in Tasks :
        /\ prog = "introspect"
        /\ PageOf(UA).body.links = <<LC, LB0>>
        /\ pc[s] = "sleep"
        /\ cur[s].url = UB
        /\ q[s] # <<>>
        /\ q[s][1].url = UC
        /\ q[s][1].prio = cur[s].prio
        /\ q[s][1].depth = cur[s].depth

\* the positions of the events of a kind in the history of task s
EventsAt(s, kind) == {i \in DOMAIN events[s] : events[s][i].ev = kind}

\* the URLs of task s that are marked visited and have no record yet
InFlight(s) == visited[s] \ Range(RowUrls(s))

\* C22: in both crawl loops, a URL is in the visited set before fetch is
\* called for it, and the delay lies between the marking and the fetch: every
\* GET of a seed is preceded by a delay for its URL that follows the marking
\* of that URL, with no other GET of the seed in between, and a seed never has
\* more than one URL marked and not yet recorded.
C22_DelayBeforeFetch ==
    \A s \in Tasks :
        /\ \A i \in EventsAt(s, "get") :
              \E k \in EventsAt(s, "visit") : \E j \in EventsAt(s, "sleep") :
                  /\ k < j /\ j < i
                  /\ events[s][k].url = events[s][i].url
                  /\ events[s][j].url = events[s][i].url
                  /\ \A m \in (k + 1)..(i - 1) : events[s][m].ev # "get"
        /\ pc[s] \in {"robots", "robots_read", "fetch"} =>
              /\ cur[s].url \in visited[s]
              /\ \E j \in EventsAt(s, "sleep") :
                    /\ events[s][j].url = cur[s].url
                    /\ \A m \in (j + 1)..Len(events[s]) : events[s][m].ev \notin {"get", "visit"}
        /\ Cardinality(InFlight(s)) <= 1
        /\ pc[s] \in {"sleep", "robots", "robots_read", "fetch"} => InFlight(s) = {cur[s].url}

\* a crawl has issued GETs for three pages, each after its own delay
C22_Witness ==
    \E s \in Tasks :
        /\ Cardinality(EventsAt(s, "get")) = 3
        /\ Cardinality(EventsAt(s, "sleep")) = 3
        /\ pc[s] = "done"

\* the cached robots parser of the URL's host refuses the URL
Refused(u) == T_RobotsKey[u] \in DOMAIN ROBOTS /\ ~T_can_fetch[ROBOTS[T_RobotsKey[u]], u]

\* C23: in both scripts, the call of fetch for a URL the robots gate refuses
\* returns the error "robots_disallow" with no status, content type or body,
\* issues no GET, and the iteration records the URL without status and without
\* adding to the frontier; no GET is ever issued for a refused URL, and the
\* URL, being visited, is never fetched again.
C23_RobotsGate ==
    /\ [][\A s \in Tasks :
             (pc[s] = "fetch" /\ pc'[s] # "fetch" /\ Refused(cur[s].url)) =>
                 /\ fetch(ROBOTS, cur[s].url) =
                       [status |-> NoneInt, ct |-> None, body |-> EmptyBody, err |-> "robots_disallow"]
                 /\ events'[s] = events[s]
                 /\ Len(rows'[s]) = Len(rows[s]) + 1
                 /\ rows'[s][Len(rows'[s])].url = cur[s].url
                 /\ rows'[s][Len(rows'[s])].status = NoneInt
                 /\ prog = "introspect" => rows'[s][Len(rows'[s])].kind = "error"
                 /\ q'[s] = q[s]
                 /\ pc'[s] = "loop"]_vars
    /\ [](\A s \in Tasks : \A u \in visited[s] :
             /\ Refused(u) => EventCount(s, "get", u) = 0
             /\ EventCount(s, "visit", u) <= 1)

\* robots.txt disallows /c; /c was dequeued, recorded without a status and
\* without a GET, and the crawl has ended
C23_Witness ==
    \E s \in Tasks :
        /\ RobotsOf(KX) = OkRobots({"/c"})
        /\ pc[s] = "done"
        /\ \E i \in DOMAIN rows[s] : rows[s][i].url = UC /\ rows[s][i].status = NoneInt
        /\ EventCount(s, "get", UC) = 0
        /\ EventCount(s, "get", UB) = 1

\* the bodies the sites serve
Bodies == {PageOf(u).body : u \in Urls}

\* no task has started yet (the sites stay as they are during a run, so what
\* depends on the sites alone is evaluated here)
AtStart == \A s \in Tasks : pc[s] = "submitted"

\* C24: in introspect_pref, an iteration adds entries to the frontier only
\* when it has recorded a page fetched with status 200 at a depth below
\* max_depth whose kind is html (xml passes the guard of the link loop but its
\* extractor returns no links); the entries are appended for that page with
\* its depth plus one; an iteration that records any other kind leaves the
\* frontier as it is; the kinds without extractor (csv, json, xls, other,
\* error) have no links in their metadata and do not pass the guard of the
\* link loop.
C24_OnlyHtmlEnqueues ==
    /\ [][\A s \in Tasks :
             (prog = "introspect" /\ pc[s] = "fetch" /\ pc'[s] # "fetch") =>
                 LET row == rows'[s][Len(rows'[s])]
                 IN /\ Len(rows'[s]) = Len(rows[s]) + 1
                    /\ q'[s] # q[s] =>
                          /\ row.kind = "html" /\ row.status = 200 /\ row.depth < max_depth
                          /\ Len(q'[s]) > Len(q[s])
                          /\ SubSeq(q'[s], 1, Len(q[s])) = q[s]
                          /\ \A i \in (Len(q[s]) + 1)..Len(q'[s]) :
                                q'[s][i].src = row.url /\ q'[s][i].depth = row.depth + 1
                    /\ row.kind # "html" => q'[s] = q[s]]_vars
    /\ [](AtStart =>
             /\ \A k \in KINDS \ {"html", "xml", "pdf"} : \A b \in Bodies : ExtractMeta(k, b).links = <<>>
             /\ \A k \in KINDS \ {"html", "xml"} : \A d \in 0..MaxDepthBound : ~MayFollow(d, k))

\* an XML feed that carries an anchor was recorded at depth 1 of a crawl with
\* max_depth 2 and nothing was enqueued for it, while the HTML seed page had
\* its anchors enqueued
C24_Witness ==
    \E s \in Tasks :
        /\ prog = "introspect"
        /\ max_depth = 2
        /\ pc[s] = "done"
        /\ PageOf(UB) = XmlFeed
        /\ \E i \in DOMAIN rows[s] : rows[s][i].url = UB /\ rows[s][i].kind = "xml" /\ rows[s][i].depth = 1
        /\ \E i \in DOMAIN rows[s] : rows[s][i].from = UA
        /\ \A i \in DOMAIN rows[s] : rows[s][i].from # UB
        /\ \A i \in DOMAIN q[s] : q[s][i].src # UB

\* the date locations of a document that hold a value which parses as a date
DateHits(meta) == {i \in DOMAIN meta : meta[i] > 0}

\* C25: parse_html takes the date of the first of the three locations
\* (published-time meta, updated-time meta, time element) whose value parses
\* as a date, and then years is the one-element sequence with the year of
\* that date, whatever the text says; only when no location gives a date is
\* years the result of the year heuristic on title + " " + body text.
C25_DateChain ==
    (call.fn = "parse_html" /\ ret.done) =>
        LET meta == call.body.meta
            hits == DateHits(meta)
        IN /\ hits # {} =>
                 \E i \in hits : /\ \A j \in hits : i <= j
                                 /\ ret.val.years = <<meta[i]>>
           /\ hits = {} =>
                 ret.val.years = ExpectedYears(<<call.body.title, <<" ">>, call.body.text>>, 1)

\* parse_html has returned for a document whose first date location is
\* empty, whose second holds a value that does not parse and whose third
\* holds a date of 2021, with years in title and text: years is 2021 alone
C25_Witness ==
    /\ call.fn = "parse_html"
    /\ ret.done
    /\ call.body.meta = <<0, -1, 2021>>
    /\ call.body.title = PR5
    /\ call.body.text = PY2024
    /\ ret.val.years = <<2021>>

\* parse_html has returned for a document without any date that parses:
\* years are those of title and text
C25_WitnessText ==
    /\ call.fn = "parse_html"
    /\ ret.done
    /\ call.body.meta = <<-1, 0, -1>>
    /\ call.body.title = PR5
    /\ call.body.text = PY2024
    /\ ret.val.years = <<2023, 2024>>

\* C26: in introspect_pref, when the extractor raises on the content of a
\* page fetched with status 200, the iteration still appends exactly one
\* record for the URL, with the kind the classifier gave and the default
\* metadata (empty title, text_len 0, no years); it collects no year, leaves
\* the frontier as it is, and the task returns to the loop head instead of
\* ending with the exception.  For every kind, the metadata after a raising
\* extractor is the default metadata.
C26_ParseFaultRecovered ==
    /\ [][\A s \in Tasks :
             LET u == cur[s].url
                 p == PageOf(u)
             IN (/\ prog = "introspect" /\ pc[s] = "fetch" /\ pc'[s] # "fetch"
                 /\ RequestIssued(ROBOTS, u) /\ p.err = None /\ p.status = 200
                 /\ p.body.raises) =>
                    /\ Len(rows'[s]) = Len(rows[s]) + 1
                    /\ SubSeq(rows'[s], 1, Len(rows[s])) = rows[s]
                    /\ LET row == rows'[s][Len(rows'[s])]
                       IN /\ row.url = u /\ row.status = 200
                          /\ row.kind = T_classify_ext[u, p.ct]
                          /\ row.title = <<>> /\ row.text_len = 0 /\ row.years = <<>>
                    /\ years_all'[s] = years_all[s]
                    /\ q'[s] = q[s]
                    /\ pc'[s] = "loop"
                    /\ result'[s] = result[s]]_vars
    /\ [](AtStart =>
             \A k \in KINDS : \A b \in Bodies :
                 ExtractMeta(k, [b EXCEPT !.raises = TRUE]) = DefaultMeta(k))

\* /b, on which the HTML extractor raises, was recorded as html with the
\* default metadata at depth 1 of a crawl with max_depth 2; nothing was
\* enqueued for it and the crawl went on to record /c
C26_Witness ==
    \E s \in Tasks :
        /\ prog = "introspect"
        /\ max_depth = 2
        /\ PageOf(UB) = HtmlBroken
        /\ \E i \in DOMAIN rows[s] :
              /\ rows[s][i].url = UB /\ rows[s][i].kind = "html" /\ rows[s][i].depth = 1
              /\ rows[s][i].title = <<>> /\ rows[s][i].text_len = 0
              /\ i < Len(rows[s])
              /\ rows[s][i + 1].url = UC /\ rows[s][i + 1].from = UA
        /\ pc[s] = "done"

\* C27: in introspect_pref, every iteration that marks a URL visited appends
\* exactly one record for it: at the loop head the records are as many as the
\* visited URLs and are records of exactly these URLs, inside an iteration
\* the current URL alone has no record yet, and when the task has returned,
\* pages_scanned = number of records = |visited| <= max_pages.
C27_RecordPerVisit ==
    \A s \in Tasks :
        prog = "introspect" =>
            /\ pc[s] \in {"loop", "done", "failed"} =>
                  /\ Len(rows[s]) = Cardinality(visited[s])
                  /\ Range(RowUrls(s)) = visited[s]
            /\ pc[s] \in {"sleep", "robots", "robots_read", "fetch"} =>
                  /\ Len(rows[s]) + 1 = Cardinality(visited[s])
                  /\ Range(RowUrls(s)) = visited[s] \ {cur[s].url}
            /\ pc[s] = "done" =>
                  /\ result[s].pages_scanned = Len(rows[s])
                  /\ result[s].pages_scanned = Cardinality(visited[s])
                  /\ result[s].pages_scanned <= max_pages

\* a task has returned after three iterations, one of which recorded an error,
\* with the page cap reached and an entry left on the frontier
C27_Witness ==
    \E s \in Tasks :
        /\ prog = "introspect"
        /\ pc[s] = "done"
        /\ max_pages = 3
        /\ result[s].pages_scanned = 3
        /\ \E i \in DOMAIN rows[s] : rows[s][i].kind = "error"
        /\ \E i \in DOMAIN rows[s] : rows[s][i].kind = "html" /\ rows[s][i].depth > 0
        /\ q[s] # <<>>

\* C28: in introspect_pref the records form a discovery tree: the first
\* record is the seed URL with depth 0 and parent "root" (and there is one
\* when the task has returned and max_pages >= 1); every other record has a
\* depth of at least 1, and its parent field is the URL of an earlier record
\* of kind html whose depth is one less.
C28_DiscoveryTree ==
    \A s \in Tasks :
        prog = "introspect" =>
            /\ (pc[s] = "done" /\ max_pages >= 1) => rows[s] # <<>>
            /\ rows[s] # <<>> =>
                  /\ rows[s][1].url = seeds[s].url
                  /\ rows[s][1].depth = 0
                  /\ rows[s][1].from = "root"
            /\ \A i \in 2..Len(rows[s]) :
                  /\ rows[s][i].depth >= 1
                  /\ \E j \in 1..(i - 1) :
                        /\ rows[s][j].url = rows[s][i].from
                        /\ rows[s][j].kind = "html"
                        /\ rows[s][j].depth + 1 = rows[s][i].depth

\* three records in a chain: the seed page /a, /b found on /a, /c found on /b
C28_Witness ==
    \E s \in Tasks :
        /\ prog = "introspect"
        /\ pc[s] = "done"
        /\ Len(rows[s]) = 3
        /\ rows[s][2].url = UB /\ rows[s][2].from = UA /\ rows[s][2].depth = 1
        /\ rows[s][3].url = UC /\ rows[s][3].from = UB /\ rows[s][3].depth = 2

\* C29: in map_pref the frontier hands out its entries first in, first out;
\* the depths of the page records, then of the current entry, then of the
\* waiting entries never decrease; and the depth recorded for a URL is the
\* smallest depth of all entries ever put for it: no entry for the URL that is
\* waiting, and none that is dropped as already visited, has a smaller depth.
C29_BreadthFirst ==
    /\ [][\A s \in Tasks :
             (prog = "map" /\ Len(q'[s]) = Len(q[s]) - 1) =>
                 /\ q'[s] = Tail(q[s])
                 /\ Head(q[s]).url \in visited[s] =>
                       \A j \in DOMAIN rows[s] :
                           rows[s][j].url = Head(q[s]).url => rows[s][j].depth <= Head(q[s]).depth]_vars
    /\ [](\A s \in Tasks :
             prog = "map" =>
                 /\ \A i, j \in DOMAIN rows[s] : i < j => rows[s][i].depth <= rows[s][j].depth
                 /\ \A i, j \in DOMAIN q[s] : i < j => q[s][i].depth <= q[s][j].depth
                 /\ \A j \in DOMAIN rows[s] : \A i \in DOMAIN q[s] : rows[s][j].depth <= q[s][i].depth
                 /\ pc[s] \in {"sleep", "robots", "robots_read", "fetch"} =>
                       /\ \A j \in DOMAIN rows[s] : rows[s][j].depth <= cur[s].depth
                       /\ \A i \in DOMAIN q[s] : cur[s].depth <= q[s][i].depth)

\* map_pref recorded /c at depth 1 (found on the seed page) although an entry
\* for /c of depth 2 (found on /b) was put as well and is still waiting
C29_Witness ==
    \E s \in Tasks :
        /\ prog = "map"
        /\ pc[s] = "done"
        /\ \E j \in DOMAIN rows[s] : rows[s][j].url = UC /\ rows[s][j].depth = 1
        /\ \E j \in DOMAIN rows[s] : rows[s][j].url = UB /\ rows[s][j].depth = 1
        /\ \E i \in DOMAIN q[s] : q[s][i].url = UC /\ q[s][i].depth = 2 /\ q[s][i].src = UB

\* C30: in both crawl loops, a get() that hands out an entry whose URL is
\* already visited changes the frontier only: the visited set (and with it
\* the page budget used), the records, the collected years and PDF rows are
\* as before, no delay, robots.txt read or GET is added to the history, the
\* robots cache is untouched, and the task is at the loop head again.
C30_DuplicateDiscarded ==
    [][\A s \in Tasks :
          (/\ pc[s] = "loop"
           /\ Len(q'[s]) = Len(q[s]) - 1
           /\ \E i \in DOMAIN q[s] : q'[s] = RemoveAt(q[s], i) /\ q[s][i].url \in visited[s]) =>
              /\ visited'[s] = visited[s]
              /\ Cardinality(visited'[s]) = Cardinality(visited[s])
              /\ rows'[s] = rows[s]
              /\ years_all'[s] = years_all[s]
              /\ pdf_rows'[s] = pdf_rows[s]
              /\ events'[s] = events[s]
              /\ ROBOTS' = ROBOTS
              /\ key'[s] = key[s]
              /\ cur'[s] = cur[s]
              /\ result'[s] = result[s]
              /\ pc'[s] = "loop"]_vars

\* the seed page lists /c twice; both entries have left the frontier, /c has
\* one record, and the crawl still recorded max_pages = 3 pages
C30_Witness ==
    \E s \in Tasks :
        /\ PageOf(UA).body.links = <<LC, LC>>
        /\ max_pages = 3
        /\ pc[s] = "done"
        /\ q[s] = <<>>
        /\ RowUrls(s) = <<UA, UC, UB>>
        /\ EventCount(s, "sleep", UC) = 1
        /\ EventCount(s, "get", UC) = 1

====
